---- MODULE Spec2Model ----
(***************************************************************************)
(* PeakState AI core: three-tier response cache (response_cache.py),       *)
(* lazy embedding-model load (intent_classifier.py) and the routing table  *)
(* (orchestrator.py).                                                      *)
(*                                                                         *)
(* Conventions: Optional[X] is a sequence of length 0 (None) or 1;         *)
(* similarity scores are hundredths (0.92 -> 92); money is micro-dollars.  *)
(***************************************************************************)
EXTENDS Integers, Sequences, FiniteSets, TLC

\* ------------------------------------------------------------------ bounds
MaxOps == 3

\* ------------------------------------------------------- program constants
L1_HIT_TTL == 86400
DEFAULT_TTL == 86400
L3_THRESHOLD == 88
DEFAULT_SIMILARITY_THRESHOLD == 92
L2_MIN_COMPLEXITY == 3
DEFAULT_COST_PER_1K == 20000
DEFAULT_LATENCY_MS == 2000
THRESHOLD_MAX == 10
DEFAULT_LOCAL_THRESHOLD == 3
DEFAULT_MINI_THRESHOLD == 6

\* ------------------------------------------------------------ value sets
NoneSeq == <<>>

LOCAL_PHI == "phi-3.5"
OPENAI_GPT5 == "gpt-5"
OPENAI_GPT5_NANO == "gpt-5-nano-2025-08-07"
CLAUDE_SONNET_4 == "claude-sonnet-4-20250514"
AIProvider == {LOCAL_PHI, OPENAI_GPT5, OPENAI_GPT5_NANO, CLAUDE_SONNET_4}
StoreProviders == {LOCAL_PHI, OPENAI_GPT5}

Users == {"u1", "u2"}
Queries == {<<"a">>, <<"A", " ">>}
Responses == {"r1"}
Msg1 == [role |-> "user", content |-> <<"x">>]
Histories == {<<>>, <<Msg1>>}
Complexities == {2, 3}
Thresholds == {DEFAULT_SIMILARITY_THRESHOLD}
TTLs == {DEFAULT_TTL}
TokenCounts == {100}

\* ------------------------------------------------------------- variables
VARIABLES
    redis,        \* external key-value store: key -> [data, ttl]
    qdrant,       \* external vector index: collection name -> set of points
    redis_up,     \* the key-value store is reachable
    qdrant_up,    \* the vector index is reachable
    rm,           \* redis_client._redis_manager global: [created, connected]
    cm,           \* the ResponseCacheManager singleton's fields
    classifier,   \* the IntentClassifier singleton's fields
    last,         \* the last handler call: arguments and outcome
    nops,         \* number of handler calls and outages so far
    settings,     \* app.core.config settings read by the routing table
    req,          \* the arguments of one route_request call
    route,        \* the outcome of that call
    tasks,        \* the coroutines on the event loop: call, position, result
    loads,        \* how many times the model load ran to success
    track,        \* history of one Tier-1 key: stores, hits, seconds elapsed
    scored,       \* one analyze_complexity call: its features and its factors
    chat,         \* the API process and its send_message requests
    keyed,        \* two calls of the Tier-1 key function: inputs and keys
    decision_history, \* the analyzer's record of routing decisions
    now,          \* the clock record_decision reads: decisions recorded so far
    race,         \* coroutines interleaving on one Tier-1 entry, step by step
    claude        \* one _generate_claude call: its round trips and its end

cacheVars == <<redis, qdrant, redis_up, qdrant_up, rm, cm, classifier, last, nops>>
routeVars == <<settings, req, route>>
loadVars == <<tasks, loads>>
auxVars == <<track, scored, chat>>
lateVars == <<keyed, decision_history, now, race, claude>>
vars == <<redis, qdrant, redis_up, qdrant_up, rm, cm, classifier, last, nops,
          settings, req, route, tasks, loads, track, scored, chat,
          keyed, decision_history, now, race, claude>>

\* ------------------------------------------------------ string functions
lower(c) == IF c = "A" THEN "a" ELSE IF c = "B" THEN "b" ELSE c

RECURSIVE lstrip(_)
lstrip(s) == IF s # <<>> /\ Head(s) = " " THEN lstrip(Tail(s)) ELSE s

RECURSIVE rstrip(_)
rstrip(s) ==
    IF s # <<>> /\ s[Len(s)] = " " THEN rstrip(SubSeq(s, 1, Len(s) - 1)) ELSE s

strip(s) == rstrip(lstrip(s))

lower_str(s) == [i \in 1..Len(s) |-> lower(s[i])]

\* hashlib.md5(...).hexdigest()[:n]: an injective tag of its input
md5(s, n) == <<"md5", n, s>>

\* ------------------------------------------------------------ cache keys
_generate_cache_key(query, user_id, context_hash) ==
    LET query_normalized == strip(lower_str(query))
        query_hash == md5(query_normalized, 16)
    IN  IF context_hash # NoneSeq
        THEN <<"response", user_id, query_hash, context_hash[1]>>
        ELSE <<"response", user_id, query_hash>>

RECURSIVE context_str(_)
context_str(msgs) ==
    IF msgs = <<>> THEN <<>>
    ELSE <<Head(msgs).role, ":">> \o Head(msgs).content \o <<"|">>
         \o context_str(Tail(msgs))

recent_history(h) == IF Len(h) <= 3 THEN h ELSE SubSeq(h, Len(h) - 2, Len(h))

_calculate_context_hash(conversation_history) ==
    IF conversation_history = <<>> THEN NoneSeq
    ELSE <<md5(context_str(recent_history(conversation_history)), 8)>>

\* the pattern "response:*", which names no user
MatchesPattern_AnyUser(key, user_id) == key[1] = "response"

\* "response:{user_id}:*"
MatchesPattern(key, user_id) == key[1] = "response" /\ key[2] = user_id

\* -------------------------------------------------------- cache entries
CacheEntry(query, response, provider, intent, complexity, tokens_used, user_id) ==
    [query |-> query, response |-> response, provider |-> provider,
     intent |-> intent, complexity |-> complexity, tokens_used |-> tokens_used,
     hit_count |-> 0, user_id |-> user_id]

COST_PER_1K_TOKENS(provider) ==
    CASE provider = OPENAI_GPT5 -> 30000
      [] provider = OPENAI_GPT5_NANO -> 10000
      [] provider = CLAUDE_SONNET_4 -> 15000
      [] provider = LOCAL_PHI -> 0
      [] OTHER -> DEFAULT_COST_PER_1K

LATENCY_ESTIMATE_MS(provider) ==
    CASE provider = OPENAI_GPT5 -> 3000
      [] provider = OPENAI_GPT5_NANO -> 1500
      [] provider = CLAUDE_SONNET_4 -> 2500
      [] provider = LOCAL_PHI -> 500
      [] OTHER -> DEFAULT_LATENCY_MS

CacheStats ==
    [total_requests |-> 0, l1_hits |-> 0, l2_hits |-> 0, l3_hits |-> 0,
     cache_misses |-> 0, total_cost_saved_usd |-> 0, total_latency_saved_ms |-> 0]

\* ------------------------------------------------ key-value store (Tier 1)
\* RedisManager.get: a failure of the store is logged and read as absent
RedisGet(store, key) ==
    IF redis_up /\ key \in DOMAIN store THEN <<store[key]>> ELSE NoneSeq

\* RedisManager.set: setex when ttl is truthy, else set without expiry; a
\* failure of the store is logged and nothing is written
RedisSet(store, key, value, ttl) ==
    IF redis_up
    THEN [k \in DOMAIN store \cup {key} |->
            IF k = key THEN [data |-> value, ttl |-> ttl, expires |-> ttl # 0]
            ELSE store[k]]
    ELSE store

\* RedisManager.delete_pattern
RedisDeletePattern(store, user_id) ==
    IF redis_up
    THEN [k \in {x \in DOMAIN store : ~MatchesPattern(x, user_id)} |-> store[k]]
    ELSE store

\* ------------------------------------------------- vector index (Tiers 2/3)
KB_COLLECTION == <<"knowledge_base_qa">>
UserCollection(user_id) == <<"cache_user_", user_id>>

\* sentence_transformer.encode: the vector of a text is identified with the
\* text; the cosine score of two vectors is a fixed symmetric table
encode(query) == query

CosSim(v, w) ==
    IF v = w THEN 100
    ELSE IF {v, w} = {<<"a">>, <<"A", " ">>} THEN 95
    ELSE 89

\* qdrant_client.search(limit=1, score_threshold): the candidates for the
\* single best point at or above the threshold
QdrantSearch(index, name, vector, threshold) ==
    LET pts == {p \in index[name] : CosSim(p.vector, vector) >= threshold}
    IN  {p \in pts : \A o \in pts : CosSim(o.vector, vector) <= CosSim(p.vector, vector)}

QdrantUpsert(index, name, point) ==
    [index EXCEPT ![name] = {p \in @ : p.id # point.id} \cup {point}]

QdrantCreate(index, name) ==
    [n \in DOMAIN index \cup {name} |-> IF n = name THEN {} ELSE index[n]]

QdrantDelete(index, name) ==
    [n \in DOMAIN index \ {name} |-> index[n]]

KBEntry ==
    [query |-> <<"b">>, response |-> "kb", provider |-> "knowledge_base",
     intent |-> "general", complexity |-> 1, tokens_used |-> <<0>>,
     hit_count |-> 0, user_id |-> "system"]

KBPoint == [id |-> md5(<<"b">>, 32), vector |-> encode(<<"b">>), payload |-> KBEntry]

\* ------------------------------------------------- lazy initialization
\* redis_client.get_redis_manager: the global is assigned before connect(),
\* so a failed connect leaves an unconnected manager behind
get_redis_manager(g) ==
    IF g.created THEN [ok |-> TRUE, rm |-> g]
    ELSE [ok |-> redis_up, rm |-> [created |-> TRUE, connected |-> redis_up]]

\* _ensure_knowledge_base_collection: get_collection, and on any exception
\* create_collection (which raises when the index is unreachable)
_ensure_knowledge_base_collection(index) ==
    IF ~qdrant_up THEN [ok |-> FALSE, qdrant |-> index]
    ELSE IF KB_COLLECTION \in DOMAIN index THEN [ok |-> TRUE, qdrant |-> index]
    ELSE [ok |-> TRUE, qdrant |-> QdrantCreate(index, KB_COLLECTION)]

\* ResponseCacheManager.initialize run to its end without interleaving.
\* outcome: "ok", "raise" (the exception is re-raised) or "hang" (the caller
\* waits for a lock that is never released).  A lock is "held" only when an
\* earlier caller hangs while holding it.
initialize(c, cl, g, index) ==
    IF c.initialized
    THEN [outcome |-> "ok", cm |-> c, classifier |-> cl, rm |-> g, qdrant |-> index]
    ELSE IF c.init_lock = "held"
    THEN [outcome |-> "hang", cm |-> c, classifier |-> cl, rm |-> g, qdrant |-> index]
    ELSE
      LET r == get_redis_manager(g) IN
      IF ~r.ok
      THEN [outcome |-> "raise", cm |-> c, classifier |-> cl, rm |-> r.rm, qdrant |-> index]
      ELSE
        LET c2 == [c EXCEPT !.redis_manager = TRUE, !.qdrant_client = TRUE] IN
        IF ~cl.is_loaded
        THEN \* takes classifier.load_lock, then _load_model takes it again
             [outcome |-> "hang", cm |-> [c2 EXCEPT !.init_lock = "held"],
              classifier |-> [cl EXCEPT !.load_lock = "held"],
              rm |-> r.rm, qdrant |-> index]
        ELSE
          LET c3 == [c2 EXCEPT !.sentence_transformer = cl.model]
              k == _ensure_knowledge_base_collection(index)
          IN  IF ~k.ok
              THEN [outcome |-> "raise", cm |-> c3, classifier |-> cl,
                    rm |-> r.rm, qdrant |-> index]
              ELSE [outcome |-> "ok", cm |-> [c3 EXCEPT !.initialized = TRUE],
                    classifier |-> cl, rm |-> r.rm, qdrant |-> k.qdrant]

\* ------------------------------------------------------------ tier checks
\* Each returns [entry |-> Optional[CacheEntry], redis |-> the store after it]
_check_l1_cache(store, query, user_id, conversation_history) ==
    LET context_hash == _calculate_context_hash(conversation_history)
        cache_key == _generate_cache_key(query, user_id, context_hash)
        cached_data == RedisGet(store, cache_key)
    IN  IF cached_data # NoneSeq
        THEN LET cache_entry == [cached_data[1].data EXCEPT !.hit_count = @ + 1]
             IN  [entry |-> <<cache_entry>>,
                  redis |-> RedisSet(store, cache_key, cache_entry, L1_HIT_TTL)]
        ELSE [entry |-> NoneSeq, redis |-> store]

\* the set of entries _check_l2_cache may return (empty set: None)
_check_l2_cache(index, query, user_id, threshold) ==
    LET query_vector == encode(query)
        collection_name == UserCollection(user_id)
    IN  IF ~qdrant_up \/ collection_name \notin DOMAIN index THEN {}
        ELSE {p.payload : p \in QdrantSearch(index, collection_name, query_vector, threshold)}

_check_l3_cache(index, query) ==
    LET query_vector == encode(query)
    IN  IF ~qdrant_up \/ KB_COLLECTION \notin DOMAIN index THEN {}
        ELSE {p.payload : p \in QdrantSearch(index, KB_COLLECTION, query_vector, L3_THRESHOLD)}

\* a lookup that searches Tier 2 before Tier 1
TierLookup_L2First(store, index, query, user_id, conversation_history, threshold) ==
    LET l1 == _check_l1_cache(store, query, user_id, conversation_history)
        l2 == _check_l2_cache(index, query, user_id, threshold)
        l3 == _check_l3_cache(index, query)
    IN  IF l2 # {}
        THEN {[tier |-> "L2", entry |-> <<e>>, probes |-> <<"L2">>, redis |-> store] : e \in l2}
        ELSE IF l1.entry # NoneSeq
        THEN {[tier |-> "L1", entry |-> l1.entry, probes |-> <<"L2", "L1">>, redis |-> l1.redis]}
        ELSE IF l3 # {}
        THEN {[tier |-> "L3", entry |-> <<e>>, probes |-> <<"L2", "L1", "L3">>, redis |-> l1.redis] : e \in l3}
        ELSE {[tier |-> "miss", entry |-> NoneSeq, probes |-> <<"L2", "L1", "L3">>, redis |-> l1.redis]}

\* get_cached_response after initialization: the set of possible results
\* [tier, entry, probes, redis]; probes lists the tiers searched, in order
TierLookup(store, index, query, user_id, conversation_history, threshold) ==
    LET l1 == _check_l1_cache(store, query, user_id, conversation_history)
        l2 == _check_l2_cache(index, query, user_id, threshold)
        l3 == _check_l3_cache(index, query)
    IN  IF l1.entry # NoneSeq
        THEN {[tier |-> "L1", entry |-> l1.entry, probes |-> <<"L1">>, redis |-> l1.redis]}
        ELSE IF l2 # {}
        THEN {[tier |-> "L2", entry |-> <<e>>, probes |-> <<"L1", "L2">>, redis |-> l1.redis] : e \in l2}
        ELSE IF l3 # {}
        THEN {[tier |-> "L3", entry |-> <<e>>, probes |-> <<"L1", "L2", "L3">>, redis |-> l1.redis] : e \in l3}
        ELSE {[tier |-> "miss", entry |-> NoneSeq, probes |-> <<"L1", "L2", "L3">>, redis |-> l1.redis]}

HitStats(stats, tier) ==
    CASE tier = "L1" -> [stats EXCEPT !.l1_hits = @ + 1]
      [] tier = "L2" -> [stats EXCEPT !.l2_hits = @ + 1]
      [] tier = "L3" -> [stats EXCEPT !.l3_hits = @ + 1]
      [] OTHER -> [stats EXCEPT !.cache_misses = @ + 1]

NoArgs ==
    [user |-> "", query |-> <<>>, history |-> <<>>, response |-> "", provider |-> "",
     complexity |-> 0, tokens_used |-> NoneSeq, ttl |-> 0]

Call(op, args, outcome, tier, entry, probes) ==
    [op |-> op, args |-> args, outcome |-> outcome, tier |-> tier,
     entry |-> entry, probes |-> probes]

\* ------------------------------------------------------------- handlers
get_cached_response(query, user_id, conversation_history, similarity_threshold) ==
    LET args == [NoArgs EXCEPT !.user = user_id, !.query = query,
                               !.history = conversation_history]
        i == initialize(cm, classifier, rm, qdrant)
    IN  /\ nops < MaxOps
        /\ nops' = nops + 1
        /\ classifier' = i.classifier
        /\ rm' = i.rm
        /\ qdrant' = i.qdrant
        /\ UNCHANGED <<redis_up, qdrant_up, routeVars, loadVars, scored, chat, lateVars>>
        /\ IF i.outcome # "ok"
           THEN /\ cm' = i.cm
                /\ redis' = redis
                /\ last' = Call("lookup", args, i.outcome, "none", NoneSeq, <<>>)
           ELSE \E r \in TierLookup(redis, i.qdrant, query, user_id,
                                    conversation_history, similarity_threshold) :
                /\ cm' = [i.cm EXCEPT !.stats =
                            HitStats([@ EXCEPT !.total_requests = @ + 1], r.tier)]
                /\ redis' = r.redis
                /\ last' = Call("lookup", args,
                                IF r.tier = "miss" THEN "miss" ELSE "hit",
                                r.tier, r.entry, r.probes)

\* _write_to_qdrant: its own try/except swallows every failure
_write_to_qdrant(index, query, cache_entry, user_id) ==
    LET query_vector == encode(query)
        collection_name == UserCollection(user_id)
        point_id == md5(<<user_id, ":">> \o query, 32)
        point == [id |-> point_id, vector |-> query_vector, payload |-> cache_entry]
    IN  IF ~qdrant_up THEN index
        ELSE IF collection_name \in DOMAIN index
        THEN QdrantUpsert(index, collection_name, point)
        ELSE QdrantUpsert(QdrantCreate(index, collection_name), collection_name, point)

_write_to_redis(store, query, cache_entry, user_id, conversation_history, ttl) ==
    LET context_hash == _calculate_context_hash(conversation_history)
        cache_key == _generate_cache_key(query, user_id, context_hash)
    IN  RedisSet(store, cache_key, cache_entry, ttl)

\* AIOrchestrator.generate_response: the local backend reports no token count
generate_response_tokens(provider, tokens) ==
    IF provider = LOCAL_PHI THEN NoneSeq ELSE <<tokens>>

\* the body of set_cache after initialization: [raised, stats, redis, qdrant]
SetCacheBody(stats, store, index, query, response, user_id, provider, intent, complexity, tokens_used, conversation_history, ttl) ==
    LET cache_entry == CacheEntry(query, response, provider, intent, complexity,
                                  tokens_used, user_id)
    IN  IF tokens_used = NoneSeq
        THEN \* tokens_used / 1000 raises TypeError, caught by set_cache
             [raised |-> TRUE, stats |-> stats, redis |-> store, qdrant |-> index]
        ELSE [raised |-> FALSE,
              stats |-> [stats EXCEPT
                  !.total_cost_saved_usd =
                      @ + (tokens_used[1] * COST_PER_1K_TOKENS(provider)) \div 1000,
                  !.total_latency_saved_ms = @ + LATENCY_ESTIMATE_MS(provider)],
              redis |-> _write_to_redis(store, query, cache_entry, user_id,
                                        conversation_history, ttl),
              qdrant |-> IF complexity >= L2_MIN_COMPLEXITY
                         THEN _write_to_qdrant(index, query, cache_entry, user_id)
                         ELSE index]

\* set_cache as send_message calls it after a live backend call
\* outcome: "ok", "error" (an exception was logged and swallowed) or "hang"
set_cache(query, response, user_id, provider, intent, complexity, tokens, conversation_history, ttl) ==
    LET tokens_used == generate_response_tokens(provider, tokens)
        args == [NoArgs EXCEPT !.user = user_id, !.query = query,
                               !.history = conversation_history,
                               !.response = response, !.provider = provider,
                               !.complexity = complexity,
                               !.tokens_used = tokens_used, !.ttl = ttl]
        i == initialize(cm, classifier, rm, qdrant)
        b == SetCacheBody(i.cm.stats, redis, i.qdrant, query, response, user_id,
                          provider, intent, complexity, tokens_used,
                          conversation_history, ttl)
    IN  /\ nops < MaxOps
        /\ nops' = nops + 1
        /\ classifier' = i.classifier
        /\ rm' = i.rm
        /\ UNCHANGED <<redis_up, qdrant_up, routeVars, loadVars, scored, chat, lateVars>>
        /\ IF i.outcome # "ok"
           THEN /\ cm' = i.cm
                /\ redis' = redis
                /\ qdrant' = i.qdrant
                /\ last' = Call("store", args,
                                IF i.outcome = "raise" THEN "error" ELSE "hang",
                                "none", NoneSeq, <<>>)
           ELSE /\ cm' = [i.cm EXCEPT !.stats = b.stats]
                /\ redis' = b.redis
                /\ qdrant' = b.qdrant
                /\ last' = Call("store", args,
                                IF b.raised THEN "error" ELSE "ok",
                                "none", NoneSeq, <<>>)

\* invalidate_user_cache never calls initialize: it uses the fields as they
\* are; on a None redis_manager the AttributeError is logged and swallowed
\* before the vector index is touched
InvalidateBody(c, store, index, user_id) ==
    IF ~c.redis_manager
    THEN [raised |-> TRUE, redis |-> store, qdrant |-> index]
    ELSE [raised |-> FALSE,
          redis |-> RedisDeletePattern(store, user_id),
          qdrant |-> IF qdrant_up /\ UserCollection(user_id) \in DOMAIN index
                     THEN QdrantDelete(index, UserCollection(user_id))
                     ELSE index]

invalidate_user_cache(user_id) ==
    LET b == InvalidateBody(cm, redis, qdrant, user_id)
    IN  /\ nops < MaxOps
        /\ nops' = nops + 1
        /\ redis' = b.redis
        /\ qdrant' = b.qdrant
        /\ last' = Call("invalidate", [NoArgs EXCEPT !.user = user_id],
                        IF b.raised THEN "error" ELSE "ok", "none", NoneSeq, <<>>)
        /\ UNCHANGED <<redis_up, qdrant_up, rm, cm, classifier, routeVars, loadVars, auxVars, lateVars>>

\* IntentClassifier._load_model run to its end with success by a classify
\* call that reaches the semantic stage
LoadModel ==
    /\ ~classifier.is_loaded
    /\ classifier.load_lock = "free"
    /\ classifier' = [classifier EXCEPT !.model = TRUE, !.is_loaded = TRUE]
    /\ UNCHANGED <<redis, qdrant, redis_up, qdrant_up, rm, cm, last, nops, routeVars, loadVars, auxVars, lateVars>>

\* ------------------------------------------------------------ environment
NewCacheManager ==
    [redis_manager |-> FALSE, qdrant_client |-> FALSE, sentence_transformer |-> FALSE,
     initialized |-> FALSE, init_lock |-> "free", stats |-> CacheStats]

NewClassifier == [model |-> FALSE, is_loaded |-> FALSE, load_lock |-> "free"]

NewRedisGlobal == [created |-> FALSE, connected |-> FALSE]

\* a store becomes unreachable, or reachable again, between two handler calls
RedisFlip ==
    /\ nops < MaxOps
    /\ nops' = nops + 1
    /\ redis_up' = ~redis_up
    /\ last' = Call("outage", NoArgs, "ok", "none", NoneSeq, <<>>)
    /\ UNCHANGED <<redis, qdrant, qdrant_up, rm, cm, classifier, routeVars, loadVars, auxVars, lateVars>>

QdrantFlip ==
    /\ nops < MaxOps
    /\ nops' = nops + 1
    /\ qdrant_up' = ~qdrant_up
    /\ last' = Call("outage", NoArgs, "ok", "none", NoneSeq, <<>>)
    /\ UNCHANGED <<redis, qdrant, redis_up, rm, cm, classifier, routeVars, loadVars, auxVars, lateVars>>

\* ================================================================ routing
GREETING == "greeting"
CONFIRMATION == "confirmation"
DATA_QUERY == "data_query"
ADVICE_REQUEST == "advice_request"
EMOTIONAL_SUPPORT == "emotional_support"
COMPLEX_ANALYSIS == "complex_analysis"
HEALTH_DIAGNOSIS == "health_diagnosis"
IntentType == {GREETING, CONFIRMATION, DATA_QUERY, ADVICE_REQUEST,
               EMOTIONAL_SUPPORT, COMPLEX_ANALYSIS, HEALTH_DIAGNOSIS}

\* the dataclass; confidence in 1/10000
IntentClassification(intent, confidence, requires_empathy, requires_tools, requires_rag) ==
    [intent |-> intent, confidence |-> confidence,
     requires_empathy |-> requires_empathy,
     requires_tools |-> requires_tools,
     requires_rag |-> requires_rag]

\* the result the rule stage builds for a greeting or a confirmation
RuleResult(intent) ==
    IntentClassification(intent, IF intent = GREETING THEN 9500 ELSE 9000,
                         FALSE, FALSE, FALSE)

\* the result the semantic stage builds from the best intent
SemanticResult(best_intent, confidence) ==
    IntentClassification(best_intent, confidence,
        best_intent = EMOTIONAL_SUPPORT,
        best_intent \in {DATA_QUERY, COMPLEX_ANALYSIS, HEALTH_DIAGNOSIS},
        best_intent \in {ADVICE_REQUEST, COMPLEX_ANALYSIS, HEALTH_DIAGNOSIS})

\* what classify returns for an intent
Classified(intent) ==
    IF intent \in {GREETING, CONFIRMATION} THEN RuleResult(intent)
    ELSE SemanticResult(intent, 9000)

INTENT_BASE_SCORES(intent) ==
    CASE intent = GREETING -> 1
      [] intent = CONFIRMATION -> 1
      [] intent = DATA_QUERY -> 3
      [] intent = ADVICE_REQUEST -> 5
      [] intent = EMOTIONAL_SUPPORT -> 6
      [] intent = COMPLEX_ANALYSIS -> 8
      [] intent = HEALTH_DIAGNOSIS -> 9
      [] OTHER -> 5

Max(a, b) == IF a >= b THEN a ELSE b
Min(a, b) == IF a <= b THEN a ELSE b

\* a total that is the plain sum of the five factors
total_score_NoClamp(f) ==
    f.base_score + f.context_adjustment + f.user_pattern_adjustment
    + f.conversation_depth_adjustment + f.technical_level_adjustment

\* ComplexityFactors.total_score
total_score(f) ==
    Max(1, Min(10, f.base_score + f.context_adjustment + f.user_pattern_adjustment
                   + f.conversation_depth_adjustment + f.technical_level_adjustment))

\* analyze_complexity with the four adjustments as computed by the analyzer
ComplexityFactors(cls, context, user_pattern, depth, technical) ==
    [base_score |-> INTENT_BASE_SCORES(cls.intent),
     context_adjustment |-> context,
     user_pattern_adjustment |-> user_pattern,
     conversation_depth_adjustment |-> depth,
     technical_level_adjustment |-> technical]

\* micro-dollars per 1K tokens, milliseconds
cost_config(provider) ==
    CASE provider = LOCAL_PHI -> 0
      [] provider = OPENAI_GPT5_NANO -> 200
      [] provider = OPENAI_GPT5 -> 5000
      [] provider = CLAUDE_SONNET_4 -> 3000

latency_config(provider) ==
    CASE provider = LOCAL_PHI -> 50
      [] provider = OPENAI_GPT5_NANO -> 800
      [] provider = OPENAI_GPT5 -> 2000
      [] provider = CLAUDE_SONNET_4 -> 1500

\* the dataclass constructor: every field is required, a call that leaves
\* one out raises TypeError (None)
RoutingDecisionFields ==
    {"provider", "complexity", "estimated_cost", "estimated_latency", "reason", "intent"}

RoutingDecision(kwargs) ==
    IF DOMAIN kwargs = RoutingDecisionFields THEN <<kwargs>> ELSE NoneSeq

\* a decision table that tests the empathy flag before the score thresholds
SelectProvider_EmpathyFirst(cfg, complexity, intent) ==
    IF ~cfg.AI_COST_OPTIMIZATION
    THEN [provider |-> OPENAI_GPT5, reason |-> <<"no_optimization">>]
    ELSE IF intent.requires_empathy
    THEN [provider |-> CLAUDE_SONNET_4, reason |-> <<"empathy">>]
    ELSE IF complexity < cfg.AI_ROUTE_LOCAL_THRESHOLD
    THEN [provider |-> LOCAL_PHI, reason |-> <<"low", complexity>>]
    ELSE IF complexity < cfg.AI_ROUTE_MINI_THRESHOLD
    THEN [provider |-> OPENAI_GPT5_NANO, reason |-> <<"medium", complexity>>]
    ELSE [provider |-> OPENAI_GPT5, reason |-> <<"high", complexity>>]

\* a decision table with rules 4 and 5 swapped away: no empathy rule
SelectProvider_NoEmpathy(cfg, complexity, intent) ==
    IF ~cfg.AI_COST_OPTIMIZATION
    THEN [provider |-> OPENAI_GPT5, reason |-> <<"no_optimization">>]
    ELSE IF complexity < cfg.AI_ROUTE_LOCAL_THRESHOLD
    THEN [provider |-> LOCAL_PHI, reason |-> <<"low", complexity>>]
    ELSE IF complexity < cfg.AI_ROUTE_MINI_THRESHOLD
    THEN [provider |-> OPENAI_GPT5_NANO, reason |-> <<"medium", complexity>>]
    ELSE [provider |-> OPENAI_GPT5, reason |-> <<"high", complexity>>]

\* the if/elif chain of route_request: provider and reason
SelectProvider(cfg, complexity, intent) ==
    IF ~cfg.AI_COST_OPTIMIZATION
    THEN [provider |-> OPENAI_GPT5, reason |-> <<"no_optimization">>]
    ELSE IF complexity < cfg.AI_ROUTE_LOCAL_THRESHOLD
    THEN [provider |-> LOCAL_PHI, reason |-> <<"low", complexity>>]
    ELSE IF complexity < cfg.AI_ROUTE_MINI_THRESHOLD
    THEN [provider |-> OPENAI_GPT5_NANO, reason |-> <<"medium", complexity>>]
    ELSE IF intent.requires_empathy
    THEN [provider |-> CLAUDE_SONNET_4, reason |-> <<"empathy">>]
    ELSE [provider |-> OPENAI_GPT5, reason |-> <<"high", complexity>>]

\* max(len(user_message) / 4, 100)
estimated_tokens(message_len) == Max(message_len \div 4, 100)

\* route_request; intent and factors are what classify_intent and
\* _calculate_complexity return when they are called
\* result: [raised, decision, classified, scored]
route_request(cfg, message_len, force_provider, intent, factors) ==
    IF force_provider # NoneSeq
    THEN LET d == RoutingDecision(
                    [provider |-> force_provider[1], complexity |-> 5,
                     estimated_cost |-> cost_config(force_provider[1]) * 2,
                     estimated_latency |-> latency_config(force_provider[1]),
                     reason |-> <<"forced">>])
         IN  [raised |-> d = NoneSeq, decision |-> d,
              classified |-> FALSE, scored |-> FALSE]
    ELSE LET complexity == total_score(factors)
             sel == SelectProvider(cfg, complexity, intent)
             d == RoutingDecision(
                    [provider |-> sel.provider, complexity |-> complexity,
                     estimated_cost |->
                         (cost_config(sel.provider) * estimated_tokens(message_len)) \div 1000,
                     estimated_latency |-> latency_config(sel.provider),
                     reason |-> sel.reason, intent |-> intent])
         IN  [raised |-> d = NoneSeq, decision |-> d,
              classified |-> TRUE, scored |-> TRUE]

MessageLengths == {8, 4000}
ContextAdjustments == {0, 1, 2, 4}
UserPatternAdjustments == {-1, 0}
ForceProviders == {NoneSeq} \cup {<<p>> : p \in AIProvider}

Settings ==
    [AI_COST_OPTIMIZATION : BOOLEAN,
     AI_ROUTE_LOCAL_THRESHOLD : 0..THRESHOLD_MAX,
     AI_ROUTE_MINI_THRESHOLD : 0..THRESHOLD_MAX]

NoRoute == [called |-> FALSE, raised |-> FALSE, decision |-> NoneSeq,
            classified |-> FALSE, scored |-> FALSE]

NoRequest == [message_len |-> 0, force_provider |-> NoneSeq,
              intent |-> Classified(ADVICE_REQUEST),
              factors |-> ComplexityFactors(Classified(ADVICE_REQUEST), 0, 0, 0, 0)]

DefaultSettings ==
    [AI_COST_OPTIMIZATION |-> TRUE, AI_ROUTE_LOCAL_THRESHOLD |-> DEFAULT_LOCAL_THRESHOLD,
     AI_ROUTE_MINI_THRESHOLD |-> DEFAULT_MINI_THRESHOLD]

RouteIdle ==
    /\ settings = DefaultSettings
    /\ req = NoRequest
    /\ route = NoRoute

RouteStart ==
    /\ settings \in Settings
    /\ \E n \in MessageLengths, fp \in ForceProviders, it \in IntentType,
          c \in ContextAdjustments, u \in UserPatternAdjustments :
         req = [message_len |-> n, force_provider |-> fp,
                intent |-> Classified(it),
                factors |-> ComplexityFactors(Classified(it), c, u, 0, 0)]
    /\ route = NoRoute

RouteRequest ==
    /\ ~route.called
    /\ LET r == route_request(settings, req.message_len, req.force_provider,
                              req.intent, req.factors)
       IN  route' = [called |-> TRUE, raised |-> r.raised, decision |-> r.decision,
                     classified |-> r.classified, scored |-> r.scored]
    /\ UNCHANGED <<settings, req, cacheVars, loadVars, auxVars, lateVars>>

\* ==================================================== concurrent loading
\* The coroutines of one event loop.  A coroutine runs without interruption
\* up to its next suspension: a lock that is taken, an executor call, a
\* network call.  A lock holds "free" or the name of the task that took it.
Procs == {"t1", "t2", "t3"}
Messages == {"hi", "ok", "sad", "zzz"}

GreetingMessages == {"hi"}
ConfirmationMessages == {"ok"}

_classify_simple_intents(message) ==
    IF message \in GreetingMessages THEN <<RuleResult(GREETING)>>
    ELSE IF message \in ConfirmationMessages THEN <<RuleResult(CONFIRMATION)>>
    ELSE NoneSeq

\* intent_templates in dict order
TemplateIntents ==
    <<DATA_QUERY, ADVICE_REQUEST, EMOTIONAL_SUPPORT, COMPLEX_ANALYSIS, HEALTH_DIAGNOSIS>>

\* similarities.max() of a message against one intent's templates, in 1/100
MaxSimilarity(message, intent) ==
    IF message = "sad"
    THEN (IF intent = EMOTIONAL_SUPPORT THEN 80 ELSE 40)
    ELSE 0

intent_scores(message) ==
    [i \in 1..Len(TemplateIntents) |-> MaxSimilarity(message, TemplateIntents[i])]

\* the loop over template_embeddings: strict > keeps the first best
RECURSIVE BestIntent(_, _, _, _)
BestIntent(scores, i, best_intent, best_score) ==
    IF i > Len(scores) THEN [best_intent |-> best_intent, best_score |-> best_score]
    ELSE IF scores[i] > best_score
         THEN BestIntent(scores, i + 1, <<TemplateIntents[i]>>, scores[i])
         ELSE BestIntent(scores, i + 1, best_intent, best_score)

\* top * (1 + margin * 0.5), clamped to [0.5, 0.99]; result in 1/10000
_calibrate_confidence(best_score, all_scores) ==
    LET top == CHOOSE i \in DOMAIN all_scores :
                   \A j \in DOMAIN all_scores : all_scores[i] >= all_scores[j]
        rest == DOMAIN all_scores \ {top}
        top_score == all_scores[top]
        second_score == IF rest = {} THEN 0
                        ELSE all_scores[CHOOSE i \in rest :
                                 \A j \in rest : all_scores[i] >= all_scores[j]]
        margin == top_score - second_score
        confidence == (top_score * (200 + margin)) \div 2
    IN  Max(5000, Min(confidence, 9900))

\* _classify_with_semantic_model from the encoded message on
_classify_with_semantic_model(message) ==
    LET scores == intent_scores(message)
        b == BestIntent(scores, 1, NoneSeq, 0)
        best_intent == IF b.best_intent = NoneSeq THEN ADVICE_REQUEST ELSE b.best_intent[1]
        best_score == IF b.best_intent = NoneSeq THEN 50 ELSE b.best_score
    IN  SemanticResult(best_intent, _calibrate_confidence(best_score, scores))

NewTask(kind, message) ==
    [kind |-> kind, message |-> message, pc |-> "start", waited |-> FALSE,
     result |-> NoneSeq]

TaskCalls ==
    {NewTask("classify", m) : m \in Messages} \cup {NewTask("initialize", "")}

\* the skipped re-check: every task that gets the lock loads
LoadNeeded_NoRecheck(cl) == TRUE

\* _load_model, under the lock: `if self.is_loaded: return`
LoadNeeded(cl) == ~cl.is_loaded

\* the caller of _load_model resumes.  classify goes on to encode, or
\* raises the RuntimeError.  initialize leaves its own `async with` on a lock
\* that _load_model has released already: release() raises, the handler
\* re-raises, _init_lock is released.
ReturnFromLoad(p, ok) ==
    IF tasks[p].kind = "classify"
    THEN /\ tasks' = [tasks EXCEPT ![p].pc = IF ok THEN "encode" ELSE "raised"]
         /\ cm' = cm
    ELSE /\ tasks' = [tasks EXCEPT ![p].pc = "raised"]
         /\ cm' = [cm EXCEPT !.init_lock = "free"]

\* classify up to its first suspension
ClassifyStart(p) ==
    /\ tasks[p].kind = "classify"
    /\ tasks[p].pc = "start"
    /\ LET rule_result == _classify_simple_intents(tasks[p].message) IN
       IF rule_result # NoneSeq
       THEN /\ tasks' = [tasks EXCEPT ![p].pc = "done", ![p].result = rule_result]
            /\ classifier' = classifier
       ELSE IF classifier.is_loaded
       THEN /\ tasks' = [tasks EXCEPT ![p].pc = "encode"]
            /\ classifier' = classifier
       ELSE IF classifier.load_lock = "free"
       THEN /\ classifier' = [classifier EXCEPT !.load_lock = p]
            /\ tasks' = [tasks EXCEPT ![p].pc = "loading"]
       ELSE /\ tasks' = [tasks EXCEPT ![p].pc = "load_wait", ![p].waited = TRUE]
            /\ classifier' = classifier
    /\ UNCHANGED <<redis, qdrant, redis_up, qdrant_up, rm, cm, last, nops, routeVars, loads, auxVars, lateVars>>

\* a task suspended in `async with self.load_lock` of _load_model gets the lock
LoadLockAcquire(p) ==
    /\ tasks[p].pc = "load_wait"
    /\ classifier.load_lock = "free"
    /\ IF LoadNeeded(classifier)
       THEN /\ classifier' = [classifier EXCEPT !.load_lock = p]
            /\ tasks' = [tasks EXCEPT ![p].pc = "loading"]
            /\ cm' = cm
       ELSE /\ classifier' = classifier
            /\ ReturnFromLoad(p, TRUE)
    /\ UNCHANGED <<redis, qdrant, redis_up, qdrant_up, rm, last, nops, routeVars, loads, auxVars, lateVars>>

\* run_in_executor(_load_model_sync) completes or fails
LoadExecutor(p) ==
    /\ tasks[p].pc = "loading"
    /\ \E ok \in BOOLEAN :
         IF ok
         THEN /\ classifier' = [classifier EXCEPT !.model = TRUE]
              /\ tasks' = [tasks EXCEPT ![p].pc = "precompute"]
              /\ cm' = cm
         ELSE /\ classifier' = [classifier EXCEPT !.load_lock = "free"]
              /\ ReturnFromLoad(p, FALSE)
    /\ UNCHANGED <<redis, qdrant, redis_up, qdrant_up, rm, last, nops, routeVars, loads, auxVars, lateVars>>

\* _precompute_template_embeddings completes or fails
Precompute(p) ==
    /\ tasks[p].pc = "precompute"
    /\ \E ok \in BOOLEAN :
         IF ok
         THEN /\ classifier' = [classifier EXCEPT !.is_loaded = TRUE, !.load_lock = "free"]
              /\ loads' = loads + 1
              /\ ReturnFromLoad(p, TRUE)
         ELSE /\ classifier' = [classifier EXCEPT !.load_lock = "free"]
              /\ loads' = loads
              /\ ReturnFromLoad(p, FALSE)
    /\ UNCHANGED <<redis, qdrant, redis_up, qdrant_up, rm, last, nops, routeVars, auxVars, lateVars>>

\* the message is encoded, or the encode call fails, and classify ends
Encode(p) ==
    /\ tasks[p].pc = "encode"
    /\ \E ok \in BOOLEAN :
         IF ok
         THEN tasks' = [tasks EXCEPT ![p].pc = "done",
                          ![p].result = <<_classify_with_semantic_model(tasks[p].message)>>]
         ELSE tasks' = [tasks EXCEPT ![p].pc = "raised"]
    /\ UNCHANGED <<cacheVars, routeVars, loads, auxVars, lateVars>>

\* initialize, lines 140-146, holding _init_lock: the model is taken over,
\* the knowledge-base collection is ensured, the manager is marked
\* initialized; an exception is re-raised.  Either way _init_lock is released.
InitializeFinish(p, c) ==
    LET c3 == [c EXCEPT !.sentence_transformer = classifier.model]
        k == _ensure_knowledge_base_collection(qdrant)
    IN  IF ~k.ok
        THEN /\ cm' = [c3 EXCEPT !.init_lock = "free"]
             /\ qdrant' = qdrant
             /\ tasks' = [tasks EXCEPT ![p].pc = "raised"]
        ELSE /\ cm' = [c3 EXCEPT !.initialized = TRUE, !.init_lock = "free"]
             /\ qdrant' = k.qdrant
             /\ tasks' = [tasks EXCEPT ![p].pc = "done"]

\* initialize, lines 122-138, holding _init_lock with the redis manager at
\* hand: the Qdrant client is built, and unless the model is loaded the task
\* takes classifier.load_lock and calls _load_model, which takes it again
InitializeModelStage(p, c) ==
    LET c2 == [c EXCEPT !.redis_manager = TRUE, !.qdrant_client = TRUE] IN
    IF classifier.is_loaded
    THEN /\ InitializeFinish(p, c2)
         /\ classifier' = classifier
    ELSE IF classifier.load_lock = "free"
    THEN /\ classifier' = [classifier EXCEPT !.load_lock = p]
         /\ cm' = c2
         /\ qdrant' = qdrant
         /\ tasks' = [tasks EXCEPT ![p].pc = "load_wait", ![p].waited = TRUE]
    ELSE /\ classifier' = classifier
         /\ cm' = c2
         /\ qdrant' = qdrant
         /\ tasks' = [tasks EXCEPT ![p].pc = "i_load_wait", ![p].waited = TRUE]

\* initialize from the moment the task holds _init_lock
InitializeLocked(p) ==
    IF cm.initialized
    THEN /\ tasks' = [tasks EXCEPT ![p].pc = "done"]
         /\ UNCHANGED <<cm, classifier, qdrant>>
    ELSE IF rm.created
    THEN InitializeModelStage(p, [cm EXCEPT !.init_lock = p])
    ELSE /\ cm' = [cm EXCEPT !.init_lock = p]
         /\ tasks' = [tasks EXCEPT ![p].pc = "i_redis"]
         /\ UNCHANGED <<classifier, qdrant>>

\* initialize up to its first suspension
InitializeStart(p) ==
    /\ tasks[p].kind = "initialize"
    /\ tasks[p].pc = "start"
    /\ IF cm.initialized
       THEN /\ tasks' = [tasks EXCEPT ![p].pc = "done"]
            /\ UNCHANGED <<cm, classifier, qdrant>>
       ELSE IF cm.init_lock = "free"
       THEN InitializeLocked(p)
       ELSE /\ tasks' = [tasks EXCEPT ![p].pc = "init_wait"]
            /\ UNCHANGED <<cm, classifier, qdrant>>
    /\ UNCHANGED <<redis, redis_up, qdrant_up, rm, last, nops, routeVars, loads, auxVars, lateVars>>

\* a task suspended in `async with self._init_lock` gets the lock
InitLockAcquire(p) ==
    /\ tasks[p].pc = "init_wait"
    /\ cm.init_lock = "free"
    /\ InitializeLocked(p)
    /\ UNCHANGED <<redis, redis_up, qdrant_up, rm, last, nops, routeVars, loads, auxVars, lateVars>>

\* get_redis_manager returns the connected manager, or connect() raises
InitRedis(p) ==
    /\ tasks[p].pc = "i_redis"
    /\ LET r == get_redis_manager(rm) IN
       /\ rm' = r.rm
       /\ IF r.ok
          THEN InitializeModelStage(p, cm)
          ELSE /\ cm' = [cm EXCEPT !.init_lock = "free"]
               /\ tasks' = [tasks EXCEPT ![p].pc = "raised"]
               /\ UNCHANGED <<classifier, qdrant>>
    /\ UNCHANGED <<redis, redis_up, qdrant_up, last, nops, routeVars, loads, auxVars, lateVars>>

\* a task suspended in initialize's own `async with classifier.load_lock`
\* gets the lock
InitLoadLockAcquire(p) ==
    /\ tasks[p].pc = "i_load_wait"
    /\ classifier.load_lock = "free"
    /\ IF ~classifier.is_loaded
       THEN /\ classifier' = [classifier EXCEPT !.load_lock = p]
            /\ tasks' = [tasks EXCEPT ![p].pc = "load_wait"]
            /\ UNCHANGED <<cm, qdrant>>
       ELSE /\ InitializeFinish(p, cm)
            /\ classifier' = classifier
    /\ UNCHANGED <<redis, redis_up, qdrant_up, rm, last, nops, routeVars, loads, auxVars, lateVars>>

Step(p) ==
    \/ ClassifyStart(p)
    \/ LoadLockAcquire(p)
    \/ LoadExecutor(p)
    \/ Precompute(p)
    \/ Encode(p)
    \/ InitializeStart(p)
    \/ InitLockAcquire(p)
    \/ InitRedis(p)
    \/ InitLoadLockAcquire(p)

LoadNext == \E p \in Procs : Step(p)

NoTasks == [p \in Procs |-> NewTask("none", "")]

LoadIdle ==
    /\ tasks = NoTasks
    /\ loads = 0

LoadStart ==
    /\ redis = [k \in {} |-> {}]
    /\ qdrant = [n \in {} |-> {}]
    /\ redis_up \in BOOLEAN
    /\ qdrant_up \in BOOLEAN
    /\ rm = NewRedisGlobal
    /\ cm = NewCacheManager
    /\ classifier = NewClassifier
    /\ last = Call("none", NoArgs, "ok", "none", NoneSeq, <<>>)
    /\ nops = 0
    /\ tasks \in [Procs -> TaskCalls]
    /\ loads = 0

\* ---------------------------------------------------------- specification
\* The external stores outlive the process: at process start Tier 1 is empty
\* or holds an entry that an earlier process stored for user u1, and the
\* knowledge base is absent or bulk-loaded
SeedEntry ==
    CacheEntry(<<"a">>, "r1", OPENAI_GPT5, "advice_request", 3, <<100>>, "u1")

SeedKey == _generate_cache_key(<<"a">>, "u1", NoneSeq)

SeedRedis ==
    [k \in {SeedKey} |-> [data |-> SeedEntry, ttl |-> DEFAULT_TTL, expires |-> TRUE]]

CacheStart ==
    /\ redis \in {[k \in {} |-> {}], SeedRedis}
    /\ qdrant \in {[n \in {} |-> {}], [n \in {KB_COLLECTION} |-> {KBPoint}]}
    /\ redis_up = TRUE
    /\ qdrant_up = TRUE
    /\ rm = NewRedisGlobal
    /\ cm = NewCacheManager
    /\ classifier = NewClassifier
    /\ last = Call("none", NoArgs, "ok", "none", NoneSeq, <<>>)
    /\ nops = 0

Lookup ==
    \E q \in Queries, u \in Users, h \in Histories, th \in Thresholds :
        get_cached_response(q, u, h, th) /\ UNCHANGED track

Store ==
    \E q \in Queries, r \in Responses, u \in Users, p \in StoreProviders,
       c \in Complexities, t \in TokenCounts, h \in Histories, ttl \in TTLs :
        set_cache(q, r, u, p, "advice_request", c, t, h, ttl) /\ UNCHANGED track

Invalidate == \E u \in Users : invalidate_user_cache(u)

CacheNext ==
    \/ Lookup
    \/ Store
    \/ Invalidate
    \/ LoadModel
    \/ RedisFlip
    \/ QdrantFlip

CacheIdle ==
    /\ redis = [k \in {} |-> {}]
    /\ qdrant = [n \in {} |-> {}]
    /\ redis_up = TRUE
    /\ qdrant_up = TRUE
    /\ rm = NewRedisGlobal
    /\ cm = NewCacheManager
    /\ classifier = NewClassifier
    /\ last = Call("none", NoArgs, "ok", "none", NoneSeq, <<>>)
    /\ nops = 0

NoTrack == [stores |-> <<>>, run |-> 0, hits |-> 0, T |-> NoneSeq, age |-> 0, ticks |-> 0]

NoScore == [called |-> FALSE]

NoChatRequest ==
    [kind |-> "none", provider |-> "", outcome |-> "none", tier |-> "none",
     decisions |-> 0, backends |-> <<>>, failed |-> FALSE]

NoChat ==
    [started |-> FALSE, keys |-> [openai |-> FALSE, anthropic |-> FALSE],
     clients |-> [openai |-> FALSE, anthropic |-> FALSE], n |-> 0, req |-> NoChatRequest]

AuxIdle ==
    /\ track = NoTrack
    /\ scored = NoScore
    /\ chat = NoChat

LateIdle ==
    /\ keyed = <<>>
    /\ decision_history = <<>>
    /\ now = 0
    /\ race = <<>>
    /\ claude = <<>>

CacheInit == CacheStart /\ RouteIdle /\ LoadIdle /\ AuxIdle /\ LateIdle

RouteInit == RouteStart /\ CacheIdle /\ LoadIdle /\ AuxIdle /\ LateIdle

LoadInit == LoadStart /\ RouteIdle /\ AuxIdle /\ LateIdle

SpecCache == CacheInit /\ [][CacheNext]_vars

SpecRoute == RouteInit /\ [][RouteRequest]_vars

SpecLoad == LoadInit /\ [][LoadNext]_vars

\* the event loop runs every task that can run
SpecLoadFair == SpecLoad /\ \A p \in Procs : WF_vars(Step(p))

\* ======================================================= complexity scorer
\* A message is given by what the analyzer counts in it, a history by its
\* length, its character volume and the two signals read from its last turns.
MaxCalls == 2

\* the shortest question mark, conditional keyword, technical keyword and
\* number-with-unit take 1, 2, 3 and 2 characters
ScoreMessages ==
    {m \in [message_length : {8, 101, 201}, question_count : {0, 2, 3},
            conditional_count : {0, 2}, technical_count : {0, 1, 3},
            number_matches : {0, 2}] :
        m.question_count + 2 * m.conditional_count + 3 * m.technical_count
        + 2 * m.number_matches <= m.message_length}

NoHistory == [history_length |-> 0, total_chars |-> 0, topic_switch |-> FALSE, reference |-> FALSE]

ScoreHistories ==
    {NoHistory} \cup
    [history_length : {4, 7, 10, 11}, total_chars : {100, 2001},
     topic_switch : BOOLEAN, reference : BOOLEAN]

UserProfiles ==
    {NoneSeq, <<[days_active |-> 0, occupation |-> "doctor"]>>,
     <<[days_active |-> 31, occupation |-> "trainer"]>>,
     <<[days_active |-> 7, occupation |-> ""]>>}

_analyze_context_complexity(user_message, conversation_history) ==
    LET length_adj == IF user_message.message_length > 200 THEN 2
                      ELSE IF user_message.message_length > 100 THEN 1 ELSE 0
        question_adj == IF user_message.question_count >= 3 THEN 2
                        ELSE IF user_message.question_count >= 2 THEN 1 ELSE 0
        conditional_adj == IF user_message.conditional_count >= 2 THEN 1 ELSE 0
        history_adj == IF conversation_history.history_length > 10 THEN 2
                       ELSE IF conversation_history.history_length > 5 THEN 1 ELSE 0
        chars_adj == IF conversation_history.total_chars > 2000 THEN 1 ELSE 0
    IN  length_adj + question_adj + conditional_adj
        + (IF conversation_history.history_length > 0 THEN history_adj + chars_adj ELSE 0)

_build_user_behavior_profile(user_profile) ==
    [days_active |-> user_profile.days_active,
     is_power_user |-> user_profile.days_active > 30,
     expertise_level |-> CASE user_profile.occupation = "doctor" -> "advanced"
                           [] user_profile.occupation = "trainer" -> "intermediate"
                           [] OTHER -> "beginner"]

\* user_profiles after a call that rebuilds the profile from the data of
\* every call
CachedProfiles_Rebuild(user_profiles, user_id, user_profile) ==
    IF user_id = NoneSeq \/ user_profile = NoneSeq
    THEN user_profiles
    ELSE [u \in DOMAIN user_profiles \cup {user_id[1]} |->
            IF u = user_id[1] THEN _build_user_behavior_profile(user_profile[1])
            ELSE user_profiles[u]]

\* the analyzer's user_profiles after the call
CachedProfiles(user_profiles, user_id, user_profile) ==
    IF user_id = NoneSeq \/ user_profile = NoneSeq \/ user_id[1] \in DOMAIN user_profiles
    THEN user_profiles
    ELSE [u \in DOMAIN user_profiles \cup {user_id[1]} |->
            IF u = user_id[1] THEN _build_user_behavior_profile(user_profile[1])
            ELSE user_profiles[u]]

_analyze_user_pattern(user_profiles, user_id, user_profile) ==
    IF user_id = NoneSeq \/ user_profile = NoneSeq THEN 0
    ELSE LET behavior_profile == CachedProfiles(user_profiles, user_id, user_profile)[user_id[1]]
         IN  (IF behavior_profile.days_active < 7 THEN 1 ELSE 0)
             + (CASE behavior_profile.expertise_level = "advanced" -> 1
                  [] behavior_profile.expertise_level = "beginner" -> -1
                  [] OTHER -> 0)
             + (IF behavior_profile.is_power_user THEN 1 ELSE 0)

_analyze_conversation_depth(conversation_history) ==
    IF conversation_history.history_length = 0 THEN 0
    ELSE (IF conversation_history.history_length > 6 THEN 2
          ELSE IF conversation_history.history_length > 3 THEN 1 ELSE 0)
         + (IF conversation_history.history_length >= 3 /\ conversation_history.topic_switch
            THEN 1 ELSE 0)
         + (IF conversation_history.reference THEN 1 ELSE 0)

_analyze_technical_level(user_message) ==
    (IF user_message.technical_count >= 3 THEN 2
     ELSE IF user_message.technical_count >= 1 THEN 1 ELSE 0)
    + (IF user_message.number_matches >= 2 THEN 1 ELSE 0)

analyze_complexity(user_profiles, intent, user_message, conversation_history, user_profile, user_id) ==
    ComplexityFactors(intent,
                      _analyze_context_complexity(user_message, conversation_history),
                      _analyze_user_pattern(user_profiles, user_id, user_profile),
                      _analyze_conversation_depth(conversation_history),
                      _analyze_technical_level(user_message))

\* one analyze_complexity call on the analyzer singleton
AnalyzeComplexity ==
    \E user_id \in {NoneSeq, <<"u1">>}, user_profile \in UserProfiles :
        LET factors == analyze_complexity(scored.user_profiles, [intent |-> scored.intent],
                                          scored.message, scored.history,
                                          user_profile, user_id)
        IN  /\ scored.calls < MaxCalls
            /\ scored' = [scored EXCEPT
                            !.called = TRUE,
                            !.calls = @ + 1,
                            !.user_profiles = CachedProfiles(@, user_id, user_profile),
                            !.user_id = user_id,
                            !.user_profile = user_profile,
                            !.factors = factors,
                            !.total = total_score(factors)]
            /\ UNCHANGED <<cacheVars, routeVars, loadVars, track, chat, lateVars>>

ScoreStart ==
    /\ scored \in [called : {FALSE}, calls : {0}, user_profiles : {[u \in {} |-> {}]},
                   intent : {GREETING, ADVICE_REQUEST, HEALTH_DIAGNOSIS},
                   message : ScoreMessages, history : ScoreHistories,
                   user_id : {NoneSeq}, user_profile : {NoneSeq},
                   factors : {ComplexityFactors([intent |-> GREETING], 0, 0, 0, 0)},
                   total : {0}]
    /\ track = NoTrack
    /\ chat = NoChat

ScoreInit == ScoreStart /\ CacheIdle /\ RouteIdle /\ LoadIdle /\ LateIdle

SpecScore == ScoreInit /\ [][AnalyzeComplexity]_vars

\* ============================================================ API process
\* chat.py line 236 lacks the comma after `db=db`; send_message is modelled
\* by its statements, the call read with `db=db` as one more keyword argument.
\* The database calls of send_message are outside the model.

\* _lazy_load_clients: a client is created when its key is set
_lazy_load_clients(clients, keys) ==
    [openai |-> clients.openai \/ keys.openai,
     anthropic |-> clients.anthropic \/ keys.anthropic]

\* the adapter of a provider fails: its client is missing or its call raises
AdapterFails(clients, provider, reply) ==
    CASE provider = LOCAL_PHI -> reply = "fail"
      [] provider \in {OPENAI_GPT5, OPENAI_GPT5_NANO} -> ~clients.openai \/ reply = "fail"
      [] provider = CLAUDE_SONNET_4 -> ~clients.anthropic \/ reply = "fail"

\* a generate_response that answers from the local backend when the chosen
\* remote backend fails
generate_response_Fallback(clients, provider, reply) ==
    IF AdapterFails(clients, provider, reply)
    THEN IF provider = LOCAL_PHI
         THEN [outcome |-> "raise", backends |-> <<provider>>, failed |-> TRUE]
         ELSE [outcome |-> "ok", backends |-> <<provider, LOCAL_PHI>>, failed |-> TRUE]
    ELSE [outcome |-> "ok", backends |-> <<provider>>, failed |-> FALSE]

\* AIOrchestrator.generate_response after _lazy_load_clients: the adapter of
\* the provider is called, and what it raises is raised to the caller
generate_response(clients, provider, reply) ==
    IF AdapterFails(clients, provider, reply)
    THEN [outcome |-> "raise", backends |-> <<provider>>, failed |-> TRUE]
    ELSE [outcome |-> "ok", backends |-> <<provider>>, failed |-> FALSE]

\* the process starts: Settings() accepts empty API keys, lifespan checks
\* nothing, AIOrchestrator() creates no client
Startup ==
    /\ ~chat.started
    /\ chat' = [chat EXCEPT !.started = TRUE]
    /\ UNCHANGED <<cacheVars, routeVars, loadVars, track, scored, lateVars>>

\* one generate_response call on the orchestrator
GenerateResponse ==
    \E provider \in AIProvider, reply \in {"ok", "fail"} :
        LET clients == _lazy_load_clients(chat.clients, chat.keys)
            g == generate_response(clients, provider, reply)
        IN  /\ chat.started
            /\ nops < MaxOps
            /\ nops' = nops + 1
            /\ chat' = [chat EXCEPT
                          !.clients = clients,
                          !.n = @ + 1,
                          !.req = [kind |-> "generate", provider |-> provider,
                                   outcome |-> g.outcome, tier |-> "none",
                                   decisions |-> 0, backends |-> g.backends,
                                   failed |-> g.failed]]
            /\ last' = Call("generate", NoArgs, g.outcome, "none", NoneSeq, <<>>)
            /\ UNCHANGED <<redis, qdrant, redis_up, qdrant_up, rm, cm, classifier,
                           routeVars, loadVars, track, scored, lateVars>>

\* send_message.  classified is what classify_intent returns (None: it
\* raised); context and user_pattern are the analyzer's adjustments.
\* On a miss the decision is made, then `ai_orchestrator.AIProvider` (line
\* 223) raises AttributeError inside the try, which ends the request with
\* HTTP 500 before generate_response and set_cache.
send_message(query, user_id, conversation_history, message_len, classified, context, user_pattern) ==
    LET args == [NoArgs EXCEPT !.user = user_id, !.query = query,
                               !.history = conversation_history]
        i == initialize(cm, classifier, rm, qdrant)
        ended(outcome, tier, decisions) ==
            chat' = [chat EXCEPT
                       !.n = @ + 1,
                       !.req = [kind |-> "send", provider |-> "", outcome |-> outcome,
                                tier |-> tier, decisions |-> decisions,
                                backends |-> <<>>, failed |-> FALSE]]
    IN  /\ chat.started
        /\ nops < MaxOps
        /\ nops' = nops + 1
        /\ classifier' = i.classifier
        /\ rm' = i.rm
        /\ qdrant' = i.qdrant
        /\ UNCHANGED <<redis_up, qdrant_up, routeVars, loadVars, track, scored, lateVars>>
        /\ IF i.outcome # "ok"
           THEN /\ cm' = i.cm
                /\ redis' = redis
                /\ last' = Call("lookup", args, i.outcome, "none", NoneSeq, <<>>)
                /\ ended(i.outcome, "none", 0)
           ELSE \E r \in TierLookup(redis, i.qdrant, query, user_id,
                                    conversation_history, DEFAULT_SIMILARITY_THRESHOLD) :
                /\ cm' = [i.cm EXCEPT !.stats =
                            HitStats([@ EXCEPT !.total_requests = @ + 1], r.tier)]
                /\ redis' = r.redis
                /\ last' = Call("lookup", args,
                                IF r.tier = "miss" THEN "miss" ELSE "hit",
                                r.tier, r.entry, r.probes)
                /\ IF r.tier # "miss"
                   THEN ended("hit", r.tier, 0)
                   ELSE IF classified = NoneSeq
                   THEN ended("error", "miss", 0)
                   ELSE LET d == route_request(settings, message_len, NoneSeq, classified[1],
                                   ComplexityFactors(classified[1], context, user_pattern, 0, 0))
                        IN  ended("error", "miss", IF d.raised THEN 0 ELSE 1)

SendMessage ==
    \E q \in Queries, u \in Users, h \in Histories,
       c \in {NoneSeq} \cup {<<Classified(it)>> : it \in {GREETING, EMOTIONAL_SUPPORT}},
       x \in {0, 4} :
        send_message(q, u, h, Len(q), c, x, 0)

ChatNext ==
    \/ Startup
    \/ SendMessage
    \/ GenerateResponse
    \/ LoadModel
    \/ RedisFlip

ChatStart ==
    /\ CacheStart
    /\ chat \in [started : {FALSE}, keys : [openai : BOOLEAN, anthropic : BOOLEAN],
                 clients : {[openai |-> FALSE, anthropic |-> FALSE]}, n : {0},
                 req : {NoChatRequest}]
    /\ track = NoTrack
    /\ scored = NoScore

ChatInit == ChatStart /\ RouteIdle /\ LoadIdle /\ LateIdle

SpecChat == ChatInit /\ [][ChatNext]_vars

\* ========================================================= one Tier-1 key
\* The history of the key of (query "a", user u1, no conversation history):
\* every query of Queries normalizes to it.
MaxTicks == 2

Responses2 == {"r1", "r2"}

StoreTTLs == {60, DEFAULT_TTL}

Durations == {61, 86401}

TrackUser == "u1"

TrackHistory == <<>>

TrackKey == _generate_cache_key(<<"a">>, TrackUser, _calculate_context_hash(TrackHistory))

\* the key-value store after d seconds: a key written by setex has d seconds
\* less to live and is gone when none remain; a key written by set stays
Expire(store, d) ==
    LET alive == {k \in DOMAIN store : ~store[k].expires \/ store[k].ttl > d}
    IN  [k \in alive |-> IF store[k].expires
                         THEN [store[k] EXCEPT !.ttl = @ - d]
                         ELSE store[k]]

\* d seconds pass between two handler calls
Tick ==
    \E d \in Durations :
        /\ track.ticks < MaxTicks
        /\ redis' = Expire(redis, d)
        /\ track' = [track EXCEPT !.ticks = @ + 1, !.age = @ + d, !.run = 0]
        /\ last' = Call("elapse", NoArgs, "ok", "none", NoneSeq, <<>>)
        /\ UNCHANGED <<qdrant, redis_up, qdrant_up, rm, cm, classifier, nops,
                       routeVars, loadVars, scored, chat, lateVars>>

\* set_cache on the key; track records the call once it has returned
T1Store ==
    \E q \in Queries, r \in Responses2, p \in StoreProviders, c \in Complexities,
       t \in TokenCounts, ttl \in StoreTTLs :
        /\ set_cache(q, r, TrackUser, p, "advice_request", c, t, TrackHistory, ttl)
        /\ track' = IF last'.outcome = "hang" THEN track
                    ELSE [track EXCEPT
                            !.stores = Append(@, r),
                            !.run = @ + 1,
                            !.hits = 0,
                            !.T = IF last'.outcome = "ok" THEN <<ttl>> ELSE @,
                            !.age = IF last'.outcome = "ok" THEN 0 ELSE @]

\* get_cached_response on the key
T1Lookup ==
    \E q \in Queries, th \in Thresholds :
        /\ get_cached_response(q, TrackUser, TrackHistory, th)
        /\ track' = IF last'.outcome = "hang" THEN track
                    ELSE [track EXCEPT
                            !.run = 0,
                            !.hits = IF last'.tier = "L1" THEN @ + 1 ELSE @,
                            !.age = IF last'.tier = "L1" THEN 0 ELSE @]

Tier1Next ==
    \/ T1Store
    \/ T1Lookup
    \/ Tick
    \/ LoadModel

Tier1Start ==
    /\ redis = [k \in {} |-> {}]
    /\ qdrant \in {[n \in {} |-> {}], [n \in {KB_COLLECTION} |-> {KBPoint}]}
    /\ redis_up = TRUE
    /\ qdrant_up = TRUE
    /\ rm = NewRedisGlobal
    /\ cm = NewCacheManager
    /\ classifier = NewClassifier
    /\ last = Call("none", NoArgs, "ok", "none", NoneSeq, <<>>)
    /\ nops = 0
    /\ track = NoTrack
    /\ scored = NoScore
    /\ chat = NoChat

Tier1Init == Tier1Start /\ RouteIdle /\ LoadIdle /\ LateIdle

SpecTier1 == Tier1Init /\ [][Tier1Next]_vars

\* ===================================================== the Tier-1 key function
\* Two calls of the key computation of get_cached_response and set_cache, on
\* inputs fixed at the start.
MsgA == [role |-> "user", content |-> <<"a">>]

MsgB == [role |-> "user", content |-> <<"b">>]

\* one turn whose text holds the separators of context_str: "a|user:b"
MsgAB == [role |-> "user", content |-> <<"a", "|", "user", ":", "b">>]

KeyQueries == {<<"a">>, <<"A", " ">>, <<"b">>}

KeyHistories ==
    {<<>>, <<MsgA, MsgB>>, <<MsgAB>>, <<MsgB, MsgA, MsgB, MsgA>>, <<MsgA, MsgA, MsgB, MsgA>>}

KeyInputs == [query : KeyQueries, user_id : Users, conversation_history : KeyHistories]

\* context_hash = self._calculate_context_hash(conversation_history)
\* cache_key = self._generate_cache_key(query, user_id, context_hash)
GenerateKey ==
    \E i \in 1..2 :
        /\ keyed.key[i] = NoneSeq
        /\ LET a == keyed.input[i]
               context_hash == _calculate_context_hash(a.conversation_history)
               cache_key == _generate_cache_key(a.query, a.user_id, context_hash)
           IN  keyed' = [keyed EXCEPT !.key[i] = <<cache_key>>]
        /\ UNCHANGED <<cacheVars, routeVars, loadVars, auxVars, decision_history, now, race, claude>>

KeyStart ==
    /\ keyed \in [input : [1..2 -> KeyInputs], key : {[i \in 1..2 |-> NoneSeq]}]
    /\ decision_history = <<>>
    /\ now = 0
    /\ race = <<>>
    /\ claude = <<>>

KeyInit == KeyStart /\ CacheIdle /\ RouteIdle /\ LoadIdle /\ AuxIdle

SpecKey == KeyInit /\ [][GenerateKey]_vars

\* ================================================ spaces inside the query
\* Stores and lookups of one user, without history, of the words "a b"
\* written with single spaces, with spaces around and with two spaces between.
SpacedQueries ==
    {<<"a", " ", "b">>, <<" ", "a", " ", "b", " ">>, <<" ", "a", " ", " ", "b", " ">>}

SpStore ==
    \E q \in SpacedQueries, r \in Responses2, p \in StoreProviders, c \in Complexities,
       t \in TokenCounts :
        set_cache(q, r, TrackUser, p, "advice_request", c, t, TrackHistory, DEFAULT_TTL)
            /\ UNCHANGED track

SpLookup ==
    \E q \in SpacedQueries, th \in Thresholds :
        get_cached_response(q, TrackUser, TrackHistory, th) /\ UNCHANGED track

SpacesNext ==
    \/ SpStore
    \/ SpLookup
    \/ LoadModel

SpacesStart ==
    /\ CacheIdle
    /\ AuxIdle

SpacesInit == SpacesStart /\ RouteIdle /\ LoadIdle /\ LateIdle

SpecSpaces == SpacesInit /\ [][SpacesNext]_vars

\* ======================================================= decision history
MaxDecisions == 1002

HISTORY_LIMIT == 1000

\* the arguments of the n-th record_decision call
DecisionArgs(n) ==
    [complexity |-> 1 + (n % 10),
     provider_used |-> IF n % 2 = 0 THEN LOCAL_PHI ELSE OPENAI_GPT5,
     actual_latency_ms |-> 100 * (1 + (n % 3)),
     actual_cost |-> IF n % 2 = 0 THEN 0 ELSE 5 * (1 + (n % 10)),
     user_satisfaction |-> IF n % 4 = 0 THEN <<1 + (n % 5)>> ELSE NoneSeq]

\* the dict record_decision appends
DecisionRecord(timestamp, a) ==
    [timestamp |-> timestamp, complexity |-> a.complexity, provider |-> a.provider_used,
     latency_ms |-> a.actual_latency_ms, cost |-> a.actual_cost,
     satisfaction |-> a.user_satisfaction]

\* a record_decision that keeps the first HISTORY_LIMIT records
record_decision_KeepOldest(history, timestamp, a) ==
    LET h == Append(history, DecisionRecord(timestamp, a))
    IN  IF Len(h) > HISTORY_LIMIT THEN SubSeq(h, 1, HISTORY_LIMIT) ELSE h

\* self.decision_history after record_decision
record_decision(history, timestamp, a) ==
    LET h == Append(history, DecisionRecord(timestamp, a))
    IN  IF Len(h) > HISTORY_LIMIT THEN SubSeq(h, Len(h) - HISTORY_LIMIT + 1, Len(h)) ELSE h

RecordDecision ==
    /\ now < MaxDecisions
    /\ now' = now + 1
    /\ decision_history' = record_decision(decision_history, now + 1, DecisionArgs(now + 1))
    /\ UNCHANGED <<cacheVars, routeVars, loadVars, auxVars, keyed, race, claude>>

HistoryStart ==
    /\ decision_history = <<>>
    /\ now = 0
    /\ keyed = <<>>
    /\ race = <<>>
    /\ claude = <<>>

HistoryInit == HistoryStart /\ CacheIdle /\ RouteIdle /\ LoadIdle /\ AuxIdle

SpecHistory == HistoryInit /\ [][RecordDecision]_vars

\* ================================================ coroutines on one entry
\* Lookups, stores and invalidations of user u1 for the query "a" without
\* history, on an initialized manager with both stores reachable, run as
\* coroutines that the event loop interleaves at their awaits. Every store is
\* of complexity 2, so the entry lives in Tier 1 only.
RaceOps == {"none", "lookup", "store", "invalidate"}

RaceQuery == <<"a">>

\* the response a store task writes
RaceResponse(t) == CASE t = "t1" -> "r1" [] t = "t2" -> "r2" [] OTHER -> "r3"

\* the entry in Tier 1 before any task starts
Entry0 == CacheEntry(RaceQuery, "r0", OPENAI_GPT5, "advice_request", 2, <<100>>, TrackUser)

RaceTask(op) ==
    [op |-> op, pc |-> IF op = "none" THEN "done" ELSE "start", cached_data |-> NoneSeq,
     keys |-> {}, before |-> {}, result |-> NoneSeq]

\* _check_l1_cache up to its first await: the GET of the key; without an
\* entry the lookup goes on to the empty Tiers 2 and 3 and returns None
L1Read ==
    \E t \in Procs :
        LET task == race.tasks[t]
            cached_data == RedisGet(redis, TrackKey)
            stats == [cm.stats EXCEPT !.total_requests = @ + 1]
        IN  /\ task.op = "lookup"
            /\ task.pc = "start"
            /\ IF cached_data # NoneSeq
               THEN /\ race' = [race EXCEPT !.tasks[t].pc = "read",
                                            !.tasks[t].cached_data = <<cached_data[1].data>>]
                    /\ cm' = [cm EXCEPT !.stats = stats]
               ELSE /\ race' = [race EXCEPT !.tasks[t].pc = "done",
                                            !.tasks[t].result = <<"miss">>]
                    /\ cm' = [cm EXCEPT !.stats = HitStats(stats, "miss")]
            /\ UNCHANGED <<redis, qdrant, redis_up, qdrant_up, rm, classifier, last, nops,
                           routeVars, loadVars, auxVars, keyed, decision_history, now, claude>>

\* _check_l1_cache from the GET's result to the return: hit_count of the
\* entry that was read goes up by one and that entry is written back
L1Rewrite ==
    \E t \in Procs :
        LET task == race.tasks[t]
            cache_entry == [task.cached_data[1] EXCEPT !.hit_count = @ + 1]
        IN  /\ task.op = "lookup"
            /\ task.pc = "read"
            /\ redis' = RedisSet(redis, TrackKey, cache_entry, L1_HIT_TTL)
            /\ cm' = [cm EXCEPT !.stats = HitStats(@, "L1")]
            /\ race' = [race EXCEPT !.tasks[t].pc = "done",
                                    !.tasks[t].result = <<"hit", cache_entry>>]
            /\ UNCHANGED <<qdrant, redis_up, qdrant_up, rm, classifier, last, nops,
                           routeVars, loadVars, auxVars, keyed, decision_history, now, claude>>

\* set_cache: its one await that reaches a store is the SET of _write_to_redis
StoreWrite ==
    \E t \in Procs :
        LET task == race.tasks[t]
            b == SetCacheBody(cm.stats, redis, qdrant, RaceQuery, RaceResponse(t), TrackUser,
                              OPENAI_GPT5, "advice_request", 2, <<100>>, TrackHistory,
                              DEFAULT_TTL)
        IN  /\ task.op = "store"
            /\ task.pc = "start"
            /\ redis' = b.redis
            /\ qdrant' = b.qdrant
            /\ cm' = [cm EXCEPT !.stats = b.stats]
            /\ race' = [race EXCEPT !.tasks[t].pc = "done",
                                    !.tasks[t].result = <<"ok">>,
                                    !.writes = Append(@, RaceResponse(t))]
            /\ UNCHANGED <<redis_up, qdrant_up, rm, classifier, last, nops,
                           routeVars, loadVars, auxVars, keyed, decision_history, now, claude>>

\* invalidate_user_cache up to the first await of delete_pattern: KEYS
PatternKeys ==
    \E t \in Procs :
        LET task == race.tasks[t]
        IN  /\ task.op = "invalidate"
            /\ task.pc = "start"
            /\ race' = [race EXCEPT
                          !.tasks[t].pc = "keys",
                          !.tasks[t].keys = {k \in DOMAIN redis : MatchesPattern(k, TrackUser)},
                          !.tasks[t].before = {"r0"} \cup {race.writes[i] : i \in DOMAIN race.writes}]
            /\ UNCHANGED <<cacheVars, routeVars, loadVars, auxVars, keyed, decision_history,
                           now, claude>>

\* delete_pattern from the result of KEYS: DEL of the keys that were listed;
\* then the user's collection, which does not exist, and the return
PatternDelete ==
    \E t \in Procs :
        LET task == race.tasks[t]
        IN  /\ task.op = "invalidate"
            /\ task.pc = "keys"
            /\ redis' = [k \in DOMAIN redis \ task.keys |-> redis[k]]
            /\ race' = [race EXCEPT !.tasks[t].pc = "done", !.tasks[t].result = <<"ok">>]
            /\ UNCHANGED <<qdrant, redis_up, qdrant_up, rm, cm, classifier, last, nops,
                           routeVars, loadVars, auxVars, keyed, decision_history, now, claude>>

RaceNext ==
    \/ L1Read
    \/ L1Rewrite
    \/ StoreWrite
    \/ PatternKeys
    \/ PatternDelete

RaceStart ==
    /\ redis = [k \in {TrackKey} |-> [data |-> Entry0, ttl |-> DEFAULT_TTL, expires |-> TRUE]]
    /\ qdrant = [n \in {} |-> {}]
    /\ redis_up = TRUE
    /\ qdrant_up = TRUE
    /\ rm = [created |-> TRUE, connected |-> TRUE]
    /\ cm = [NewCacheManager EXCEPT !.initialized = TRUE, !.redis_manager = TRUE,
                                    !.qdrant_client = TRUE, !.sentence_transformer = TRUE]
    /\ classifier = [NewClassifier EXCEPT !.model = TRUE, !.is_loaded = TRUE]
    /\ last = Call("none", NoArgs, "ok", "none", NoneSeq, <<>>)
    /\ nops = 0
    /\ race \in [tasks : {[t \in Procs |-> RaceTask(op[t])] : op \in [Procs -> RaceOps]},
                 writes : {<<>>}]
    /\ keyed = <<>>
    /\ decision_history = <<>>
    /\ now = 0
    /\ claude = <<>>

RaceInit == RaceStart /\ RouteIdle /\ LoadIdle /\ AuxIdle

SpecRace == RaceInit /\ [][RaceNext]_vars

\* ============================================== the tool loop of Claude
\* One _generate_claude call with tools. The backend's reply to a round trip
\* is text, a request for tools, or an error; a request for tools is answered
\* by a nested _generate_claude call awaited by the calling one, so each
\* round of tools adds one coroutine frame to the interpreter's stack.
MaxRoundTrips == 1001

\* sys.getrecursionlimit() of CPython, which the program does not change
RECURSION_LIMIT == 1000

\* frames on the stack below the first _generate_claude call
BaseDepths == {1, 13}

ClaudeReplies == {"text", "tool_use", "error"}

NewClaudeCall(client, depth) ==
    [client |-> client, pc |-> "start", depth |-> depth, round_trips |-> 0,
     tool_rounds |-> 0, messages |-> 1, result |-> "none", error |-> "none"]

\* a tool loop that iterates in one frame
NestedDepth_SameFrame(depth) == depth

\* return await self._generate_claude(...): the frame of the nested call
NestedDepth(depth) == depth + 1

\* the call up to its first await: without a client it raises RuntimeError,
\* else it sends the messages to the backend
GenerateClaude ==
    /\ claude.pc = "start"
    /\ claude' = IF ~claude.client
                 THEN [claude EXCEPT !.pc = "done", !.result = "raise",
                                     !.error = "RuntimeError"]
                 ELSE [claude EXCEPT !.pc = "await"]
    /\ UNCHANGED <<cacheVars, routeVars, loadVars, auxVars, keyed, decision_history, now, race>>

\* from the backend's reply to the next await or to the end of the call
ClaudeReply ==
    \E reply \in ClaudeReplies :
        /\ claude.pc = "await"
        /\ claude.round_trips < MaxRoundTrips
        /\ claude' =
             CASE reply = "error" ->
                    [claude EXCEPT !.round_trips = @ + 1, !.pc = "done",
                                   !.result = "raise", !.error = "APIError"]
               [] reply = "text" ->
                    [claude EXCEPT !.round_trips = @ + 1, !.pc = "done", !.result = "text"]
               [] reply = "tool_use" ->
                    IF NestedDepth(claude.depth) > RECURSION_LIMIT
                    THEN [claude EXCEPT !.round_trips = @ + 1, !.tool_rounds = @ + 1,
                                        !.messages = @ + 2, !.pc = "done",
                                        !.result = "raise", !.error = "RecursionError"]
                    ELSE [claude EXCEPT !.round_trips = @ + 1, !.tool_rounds = @ + 1,
                                        !.messages = @ + 2,
                                        !.depth = NestedDepth(@)]
        /\ UNCHANGED <<cacheVars, routeVars, loadVars, auxVars, keyed, decision_history, now, race>>

ClaudeNext ==
    \/ GenerateClaude
    \/ ClaudeReply

ClaudeStart ==
    /\ claude \in {NewClaudeCall(c, d) : c \in BOOLEAN, d \in BaseDepths}
    /\ keyed = <<>>
    /\ decision_history = <<>>
    /\ now = 0
    /\ race = <<>>

ClaudeInit == ClaudeStart /\ CacheIdle /\ RouteIdle /\ LoadIdle /\ AuxIdle

SpecClaude == ClaudeInit /\ [][ClaudeNext]_vars

\* every awaited backend call and tool call returns or raises
SpecClaudeFair == SpecClaude /\ WF_vars(ClaudeNext)

\* ------------------------------------------------------------------ claims
LookupReturned == last.op = "lookup" /\ last.outcome \in {"hit", "miss"}

\* what each tier holds for the last lookup's arguments, read from the state
L1Holds ==
    RedisGet(redis, _generate_cache_key(last.args.query, last.args.user,
                 _calculate_context_hash(last.args.history))) # NoneSeq

L2Holds ==
    _check_l2_cache(qdrant, last.args.query, last.args.user,
                    DEFAULT_SIMILARITY_THRESHOLD) # {}

L3Holds == _check_l3_cache(qdrant, last.args.query) # {}

\* C1: a lookup searches Tier 1, then Tier 2, then Tier 3 and returns at the
\* first tier that hits: the tiers searched are a prefix of L1, L2, L3, the
\* result is tagged with the last tier searched, a query held by Tier 1 is
\* answered L1 whatever the lower tiers hold, and a lower tier answers only
\* when every tier above it misses.
C1_TierOrder ==
    LookupReturned =>
        /\ last.probes \in {<<"L1">>, <<"L1", "L2">>, <<"L1", "L2", "L3">>}
        /\ last.outcome = "hit" => last.tier = last.probes[Len(last.probes)]
        /\ last.outcome = "miss" => Len(last.probes) = 3
        /\ L1Holds <=> last.tier = "L1"
        /\ last.tier = "L2" <=> (~L1Holds /\ L2Holds)
        /\ last.tier = "L3" <=> (~L1Holds /\ ~L2Holds /\ L3Holds)

C1_Witness ==
    /\ LookupReturned
    /\ last.tier = "L1"
    /\ L2Holds
    /\ L3Holds

\* C2: after invalidate_user_cache(U) has returned with both stores
\* reachable, no lookup by U hits Tier 1 or Tier 2, on an initialized manager
\* and on one that has not run a lookup or store yet.
C2_InvalidateClears ==
    (last.op = "invalidate" /\ redis_up /\ qdrant_up) =>
        \A q \in Queries, h \in Histories :
            /\ _check_l1_cache(redis, q, last.args.user, h).entry = NoneSeq
            /\ _check_l2_cache(qdrant, q, last.args.user,
                               DEFAULT_SIMILARITY_THRESHOLD) = {}

\* C3: after the write-back of a live backend call on an initialized manager
\* with the key-value store reachable, Tier 1 holds the entry just written
\* under the key of (query, context, user), for every backend.
C3_WriteBackFillsTier1 ==
    (last.op = "store" /\ cm.initialized /\ redis_up) =>
        LET got == RedisGet(redis, _generate_cache_key(last.args.query, last.args.user,
                                _calculate_context_hash(last.args.history)))
        IN  /\ got # NoneSeq
            /\ got[1].data.response = last.args.response
            /\ got[1].data.provider = last.args.provider
            /\ got[1].data.hit_count = 0

\* C7: a lookup never raises, whatever store is unreachable, also on the
\* manager's first use.
C7_LookupNeverRaises == last.op = "lookup" => last.outcome # "raise"

\* ---------------------------------------------------------- routing claims
RouteReturned == route.called /\ ~route.raised /\ req.force_provider = NoneSeq

\* C8: with no forced backend the chosen backend follows the ordered table:
\* optimization off -> flagship; else score below the local threshold -> local;
\* else score below the mini threshold -> cheapest remote; else an empathy
\* intent -> empathy backend; else flagship.
C8_DecisionTable == RouteReturned =>
    LET d == route.decision[1]
        c == total_score(req.factors)
        opt == settings.AI_COST_OPTIMIZATION
        lo == settings.AI_ROUTE_LOCAL_THRESHOLD
        mi == settings.AI_ROUTE_MINI_THRESHOLD
        emp == req.intent.requires_empathy
    IN  /\ d.complexity = c
        /\ c \in 1..10
        /\ ~opt => d.provider = OPENAI_GPT5
        /\ (opt /\ c < lo) => d.provider = LOCAL_PHI
        /\ (opt /\ c >= lo /\ c < mi) => d.provider = OPENAI_GPT5_NANO
        /\ (opt /\ c >= lo /\ c >= mi /\ emp) => d.provider = CLAUDE_SONNET_4
        /\ (opt /\ c >= lo /\ c >= mi /\ ~emp) => d.provider = OPENAI_GPT5

C8_Witness ==
    /\ RouteReturned
    /\ settings.AI_COST_OPTIMIZATION
    /\ req.intent.intent = GREETING
    /\ route.decision[1].complexity = 1
    /\ settings.AI_ROUTE_LOCAL_THRESHOLD >= 2
    /\ route.decision[1].provider = LOCAL_PHI

\* C9 as stated: with optimization on, an empathy intent is routed to the
\* empathy backend for every complexity score.
C9_EmpathyAnyScore ==
    (RouteReturned /\ settings.AI_COST_OPTIMIZATION /\ req.intent.requires_empathy)
        => route.decision[1].provider = CLAUDE_SONNET_4

\* C9 amended: with optimization on, an empathy intent is routed to the
\* empathy backend exactly when its score is at least both thresholds; a
\* lower score takes the local or the cheapest remote backend.
C9_EmpathyAboveThresholds ==
    (RouteReturned /\ settings.AI_COST_OPTIMIZATION /\ req.intent.requires_empathy) =>
        LET d == route.decision[1]
            above == /\ d.complexity >= settings.AI_ROUTE_LOCAL_THRESHOLD
                     /\ d.complexity >= settings.AI_ROUTE_MINI_THRESHOLD
        IN  /\ above => d.provider = CLAUDE_SONNET_4
            /\ ~above => d.provider \in {LOCAL_PHI, OPENAI_GPT5_NANO}

C9_Witness ==
    /\ RouteReturned
    /\ settings = DefaultSettings
    /\ req.intent.intent = EMOTIONAL_SUPPORT
    /\ route.decision[1].complexity = 7
    /\ route.decision[1].provider = CLAUDE_SONNET_4

\* C10: a forced backend is returned as a decision for that backend, without
\* classification or scoring and without raising.
C10_ForcedReturns ==
    (route.called /\ req.force_provider # NoneSeq) =>
        /\ ~route.raised
        /\ route.decision # NoneSeq
        /\ route.decision[1].provider = req.force_provider[1]
        /\ ~route.classified
        /\ ~route.scored

\* ---------------------------------------------------------- loading claims
\* a task suspended until the model load it waits for is over
WaitsForLoad(p) == tasks[p].pc \in {"load_wait", "i_load_wait"}

\* C4: every caller that waits for the model load eventually resumes; no
\* caller waits forever, whether classify or initialize started the load.
C4_WaitersResume == \A p \in Procs : [](WaitsForLoad(p) => <>(~WaitsForLoad(p)))

\* C5: the model load runs to success at most once; whoever holds the load
\* lock while the model is loaded does not load again, so a caller that
\* waited for the lock reuses the loaded model.
C5_LoadsAtMostOnce ==
    /\ loads <= 1
    /\ loads = 1 <=> classifier.is_loaded
    /\ \A p \in Procs :
         tasks[p].pc \in {"loading", "precompute"} =>
             /\ ~classifier.is_loaded
             /\ classifier.load_lock = p
    /\ \A p \in Procs :
         (tasks[p].kind = "classify" /\ tasks[p].pc = "encode") => classifier.is_loaded

C5_Witness ==
    /\ loads = 1
    /\ \E p, q \in Procs :
         /\ p # q
         /\ tasks[p].kind = "classify" /\ tasks[q].kind = "classify"
         /\ ~tasks[p].waited /\ tasks[q].waited
         /\ tasks[p].pc = "done" /\ tasks[q].pc = "done"
         /\ tasks[p].result[1].intent = EMOTIONAL_SUPPORT
         /\ tasks[q].result[1].intent = ADVICE_REQUEST

\* C6: classify never raises; whatever fails inside, it ends with an
\* IntentClassification.
C6_ClassifyNeverRaises ==
    \A p \in Procs :
        tasks[p].kind = "classify" =>
            /\ tasks[p].pc # "raised"
            /\ tasks[p].pc = "done" => tasks[p].result # NoneSeq

\* ------------------------------------------------- cache bookkeeping claims
\* C18: the cost-saved counter changes only in a lookup that returns a hit;
\* a store leaves it unchanged.
C18_CostSavedOnlyOnHit ==
    [][cm'.stats.total_cost_saved_usd # cm.stats.total_cost_saved_usd
         => (last'.op = "lookup" /\ last'.outcome = "hit")]_vars

Tier2(index) == [n \in DOMAIN index \ {KB_COLLECTION} |-> index[n]]

Tier3(index) == IF KB_COLLECTION \in DOMAIN index THEN index[KB_COLLECTION] ELSE {}

\* C20: a store writes Tier 2 if and only if its complexity is at least 3:
\* below 3 the user collections stay as they are, from 3 on the user's
\* collection holds the stored response; no lookup, store or invalidate
\* changes the entries of Tier 3.
C20_Tier2IffComplexity3 ==
    [][/\ Tier3(qdrant') = Tier3(qdrant)
       /\ (last'.op = "store" /\ last'.args.complexity < L2_MIN_COMPLEXITY)
             => Tier2(qdrant') = Tier2(qdrant)
       /\ (last'.op = "store" /\ last'.args.complexity >= L2_MIN_COMPLEXITY
             /\ last'.outcome # "hang" /\ cm'.initialized /\ qdrant_up)
             => /\ UserCollection(last'.args.user) \in DOMAIN qdrant'
                /\ \E pt \in qdrant'[UserCollection(last'.args.user)] :
                      /\ pt.payload.query = last'.args.query
                      /\ pt.payload.response = last'.args.response
                      /\ pt.payload.provider = last'.args.provider]_vars

\* ------------------------------------------------------ Tier-1 key claims
\* C13: after two stores on the key with nothing in between, a lookup returns
\* a Tier-1 hit carrying the response given to the second store.
C13_SecondStoreWins ==
    [][(last'.op = "lookup" /\ last'.outcome # "hang" /\ track.run >= 2)
          => /\ last'.tier = "L1"
             /\ last'.entry[1].response = track.stores[Len(track.stores)]]_vars

\* C14: the n-th Tier-1 hit after a store returns hit_count = n and leaves
\* hit_count = n in the stored entry; after a store the entry holds 0.
C14_HitCountCounts ==
    [][/\ (last'.op = "lookup" /\ last'.tier = "L1" /\ track.stores # <<>>)
            => /\ last'.entry[1].hit_count = track'.hits
               /\ redis'[TrackKey].data.hit_count = track'.hits
       /\ (last'.op = "store" /\ last'.outcome # "hang" /\ TrackKey \in DOMAIN redis')
            => redis'[TrackKey].data.hit_count = 0]_vars

\* C15: a lookup returns a Tier-1 hit only within T seconds of the most
\* recent store or hit of the key, T being the ttl given to that store.
C15_TtlBounded ==
    [][(last'.op = "lookup" /\ last'.tier = "L1" /\ track.T # NoneSeq)
          => track.age <= track.T[1]]_vars

\* ------------------------------------------------------------ scorer claims
FactorSum(f) ==
    f.base_score + f.context_adjustment + f.user_pattern_adjustment
    + f.conversation_depth_adjustment + f.technical_level_adjustment

\* C16: the total score of every scoring call is an integer in 1..10, the sum
\* of the five factors clamped to that range.
C16_TotalInRange ==
    scored.called =>
        /\ scored.total \in 1..10
        /\ scored.total = (IF FactorSum(scored.factors) > 10 THEN 10
                           ELSE IF FactorSum(scored.factors) < 1 THEN 1
                           ELSE FactorSum(scored.factors))

C16_Witness ==
    /\ scored.called
    /\ FactorSum(scored.factors) > 10
    /\ scored.total = 10

\* C17: the context adjustment of every scoring call lies in 0..6.
C17_ContextInRange ==
    scored.called => scored.factors.context_adjustment \in 0..6

\* ------------------------------------------------------- API process claims
SendEnded == chat.req.kind = "send" /\ chat.req.outcome # "hang"

\* C11: every request that send_message has ended is either a cache hit at
\* one tier with no routing decision and no backend call, or a cache miss
\* followed by exactly one routing decision.
C11_HitOrOneDecision ==
    SendEnded =>
        \/ /\ chat.req.tier \in {"L1", "L2", "L3"}
           /\ chat.req.decisions = 0
           /\ chat.req.backends = <<>>
        \/ /\ chat.req.tier = "miss"
           /\ chat.req.decisions = 1

C19_NoServingWithoutCredentials ==
    (chat.started \/ chat.n > 0) => (chat.keys.openai /\ chat.keys.anthropic)

\* --------------------------------------------------------------------- C21
BothKeyed == keyed.key[1] # NoneSeq /\ keyed.key[2] # NoneSeq

\* the three components the key is said to depend on
KeyComponents(a) ==
    <<strip(lower_str(a.query)), recent_history(a.conversation_history), a.user_id>>

\* C21: the Tier-1 key is a function of the lowercased, trimmed query, the
\* last three turns of the history and the user-id only: two inputs with the
\* same three components have the same key, and two inputs that differ in one
\* of the components have different keys.
C21_KeyOfThreeComponents ==
    BothKeyed =>
        (keyed.key[1] = keyed.key[2]
            <=> KeyComponents(keyed.input[1]) = KeyComponents(keyed.input[2]))

\* --------------------------------------------------------------------- C22
\* str.split(): the words of s, separated by runs of spaces
RECURSIVE split(_)
split(s) ==
    LET t == lstrip(s)
        n == IF \E i \in 1..Len(t) : t[i] = " "
             THEN CHOOSE i \in 1..Len(t) : t[i] = " " /\ \A j \in 1..(i - 1) : t[j] # " "
             ELSE Len(t) + 1
    IN  IF t = <<>> THEN <<>>
        ELSE <<SubSeq(t, 1, n - 1)>> \o split(SubSeq(t, n, Len(t)))

\* C22: a stored query is found by the lookup, by the same user with the same
\* history, of a query made of the same words, however many spaces stand
\* before, after and between the words of either: the lookup that follows the
\* store returns the stored response.
C22_WhitespaceNormalized ==
    [][(/\ last.op = "store"
        /\ last.outcome = "ok"
        /\ last'.op = "lookup"
        /\ last'.outcome \in {"hit", "miss"}
        /\ split(last.args.query) = split(last'.args.query))
       => (/\ last'.outcome = "hit"
           /\ last'.entry # NoneSeq
           /\ last'.entry[1].response = last.args.response)]_vars

\* --------------------------------------------------------------------- C23
\* the user-pattern adjustment a behaviour profile gives
PatternOf(behavior_profile) ==
    (IF behavior_profile.days_active < 7 THEN 1 ELSE 0)
    + (CASE behavior_profile.expertise_level = "advanced" -> 1
         [] behavior_profile.expertise_level = "beginner" -> -1
         [] OTHER -> 0)
    + (IF behavior_profile.is_power_user THEN 1 ELSE 0)

\* no behaviour profile is replaced or removed by a scoring call
ProfilesKept ==
    \A u \in DOMAIN scored.user_profiles :
        u \in DOMAIN scored'.user_profiles /\ scored'.user_profiles[u] = scored.user_profiles[u]

\* C23 as stated: a behaviour profile, once built, is never replaced or
\* removed, and every later scoring call for its user-id gets the user-pattern
\* adjustment of the first-built profile, whatever profile data it passes.
C23_LaterCallsUseFirstProfile ==
    [][/\ ProfilesKept
       /\ \A u \in DOMAIN scored.user_profiles :
            scored'.user_id = <<u>>
                => scored'.factors.user_pattern_adjustment = PatternOf(scored.user_profiles[u])]_vars

\* C23 amended: a behaviour profile, once built, is never replaced or removed,
\* and every later scoring call for its user-id that carries profile data gets
\* the user-pattern adjustment of the first-built profile, whatever the data;
\* a later call without profile data gets the adjustment 0.
C23_LaterProfiledCallsUseFirstProfile ==
    [][/\ ProfilesKept
       /\ \A u \in DOMAIN scored.user_profiles :
            scored'.user_id = <<u>>
                => scored'.factors.user_pattern_adjustment =
                       IF scored'.user_profile # NoneSeq
                       THEN PatternOf(scored.user_profiles[u]) ELSE 0]_vars

\* a second call for u1 carried profile data that builds another profile than
\* the one held for u1
C23_Witness ==
    /\ scored.called
    /\ scored.calls = 2
    /\ scored.user_id = <<"u1">>
    /\ scored.user_profile # NoneSeq
    /\ "u1" \in DOMAIN scored.user_profiles
    /\ _build_user_behavior_profile(scored.user_profile[1]) # scored.user_profiles["u1"]
    /\ PatternOf(_build_user_behavior_profile(scored.user_profile[1]))
           # scored.factors.user_pattern_adjustment

\* --------------------------------------------------------------------- C24
\* C24: after any number n of record_decision calls the decision history
\* holds at most 1000 records, and they are the last min(n, 1000) recorded
\* decisions, in the order they were recorded.
C24_LastThousand ==
    LET n == now
        k == IF n < HISTORY_LIMIT THEN n ELSE HISTORY_LIMIT
    IN  /\ Len(decision_history) <= HISTORY_LIMIT
        /\ Len(decision_history) = k
        /\ \A i \in 1..k :
             decision_history[i] = DecisionRecord(n - k + i, DecisionArgs(n - k + i))

\* more than 1000 decisions were recorded and the oldest was dropped
C24_Witness ==
    /\ now > HISTORY_LIMIT
    /\ Len(decision_history) = HISTORY_LIMIT
    /\ decision_history[1].timestamp = now - HISTORY_LIMIT + 1
    /\ decision_history[HISTORY_LIMIT].timestamp = now

\* --------------------------------------------------------------------- C25
RaceDone == \A t \in Procs : race.tasks[t].pc = "done"

RaceTasksOf(op) == {t \in Procs : race.tasks[t].op = op}

\* C25: when only lookups of the existing key run, in any interleaving, each
\* of the N lookups returns a hit, and once all have finished the entry's
\* hit_count has grown by exactly N.
C25_EveryLookupCounted ==
    (/\ RaceDone
     /\ RaceTasksOf("store") = {}
     /\ RaceTasksOf("invalidate") = {})
    => (/\ \A t \in RaceTasksOf("lookup") : race.tasks[t].result[1] = "hit"
        /\ TrackKey \in DOMAIN redis
        /\ redis[TrackKey].data.hit_count
               = Entry0.hit_count + Cardinality(RaceTasksOf("lookup")))

\* --------------------------------------------------------------------- C26
\* C26: once every in-flight store and lookup of the key has finished, the
\* key holds the entry of the store whose write executed last: its response
\* and its other fields, with a hit_count that only lookups have raised. A
\* lookup that rewrites the entry never puts an older response in its place.
C26_LastStoreWins ==
    (/\ RaceDone
     /\ race.writes # <<>>
     /\ RaceTasksOf("invalidate") = {})
    => (/\ TrackKey \in DOMAIN redis
        /\ [redis[TrackKey].data EXCEPT !.hit_count = 0]
               = [Entry0 EXCEPT !.response = race.writes[Len(race.writes)]])

\* --------------------------------------------------------------------- C27
\* C27: once an invalidation of the user's cache has returned, no Tier-1
\* entry of the user that was stored before that invalidation began exists,
\* whatever lookups were in flight meanwhile.
C27_InvalidatedStaysGone ==
    \A t \in RaceTasksOf("invalidate") :
        race.tasks[t].pc = "done"
            => \A k \in DOMAIN redis :
                 MatchesPattern(k, TrackUser)
                     => redis[k].data.response \notin race.tasks[t].before

\* --------------------------------------------------------------------- C28
\* the Tier-1 keys and the Tier-2 collections of the users other than user_id
KeysOfOthers(store, user_id) ==
    {k \in DOMAIN store : \E b \in Users \ {user_id} : MatchesPattern(k, b)}

CollectionsOfOthers(index, user_id) ==
    {UserCollection(b) : b \in Users \ {user_id}} \cap DOMAIN index

\* C28: Tier 1 and Tier 2 are separate for each user: a lookup by one user
\* that is answered from Tier 1 or Tier 2 returns an entry of that user, and
\* an invalidation of one user's cache leaves every Tier-1 key and every
\* Tier-2 collection of the other users as it was.
C28_UsersIsolated ==
    [][/\ (/\ nops' = nops + 1
           /\ last'.op = "lookup"
           /\ last'.tier \in {"L1", "L2"})
          => last'.entry[1].user_id = last'.args.user
       /\ (/\ nops' = nops + 1
           /\ last'.op = "invalidate")
          => (/\ \A k \in KeysOfOthers(redis, last'.args.user) :
                    k \in DOMAIN redis' /\ redis'[k] = redis[k]
              /\ \A n \in CollectionsOfOthers(qdrant, last'.args.user) :
                    n \in DOMAIN qdrant' /\ qdrant'[n] = qdrant[n])]_vars

\* an invalidation of one user's cache has removed that user's Tier-1 keys
\* while another user holds an entry in Tier 1 and one in Tier 2
C28_Witness ==
    /\ last.op = "invalidate"
    /\ last.outcome = "ok"
    /\ \A k \in DOMAIN redis : ~MatchesPattern(k, last.args.user)
    /\ KeysOfOthers(redis, last.args.user) # {}
    /\ \E n \in CollectionsOfOthers(qdrant, last.args.user) : qdrant[n] # {}

\* --------------------------------------------------------------------- C29
\* the entry a completed store call wrote
StoredEntry(args) ==
    CacheEntry(args.query, args.response, args.provider, "advice_request",
               args.complexity, args.tokens_used, args.user)

C30_ToolLoopEnds ==
    /\ [](claude.round_trips <= RECURSION_LIMIT)
    /\ <>(claude.pc = "done" /\ claude.result \in {"text", "raise"})

\* a call every reply of which requested a tool has ended, by raising
C30_Witness ==
    /\ claude.pc = "done"
    /\ claude.round_trips > 1
    /\ claude.tool_rounds = claude.round_trips
    /\ claude.result = "raise"
    /\ claude.error = "RecursionError"

====
